---- MODULE Spec2Model ----
(***************************************************************************)
(* Control plane of the multi-index search service (meilisearch-http):     *)
(* the snapshot service and its load path, the three actor handles         *)
(* (uuid resolver, update actor, index actor) with their bounded           *)
(* mailboxes, and the update pipeline that runs through them.              *)
(*                                                                         *)
(* The module holds several specifications over one set of variables; a    *)
(* specification leaves the variables of the other parts at their initial  *)
(* values.                                                                 *)
(*   LoadSpec  load_snapshot, called at each start of the process          *)
(*   SnapSpec  SnapshotService::run / perform_snapshot                     *)
(*   PipeSpec  submissions through the three handles, actors may die       *)
(*   PipeFairSpec  the same pipeline with live actors, fairly scheduled    *)
(*   MboxSpec  one mailbox with more callers than it has slots             *)
(*   StartSpec  main: the options, Data::new and the HTTP server           *)
(*   NameSpec  get, create, delete_index, list and insert on the resolver  *)
(*   CrashSpec  the pipeline with a crash and restart of the process       *)
(***************************************************************************)
EXTENDS Integers, Sequences, FiniteSets, TLC

VARIABLES
    \* ---- load path (snapshot.rs, load_snapshot) ----
    ld_db,          \* what is at db_path: "missing" or the tree found there
    ld_snap,        \* what is at snapshot_path: "missing" or the file found there
    ld_calls,       \* number of load_snapshot calls made so far (saturates)
    ld_last,        \* record of the last call: its arguments, pre-state and result
    \* ---- snapshot service (snapshot.rs, SnapshotService) ----
    sn_pc,          \* position of the run task
    sn_result,      \* what the last perform_snapshot returned: "none", "Ok", "Err"
    sn_live,        \* ids bound in the uuid resolver right now
    sn_uuids,       \* ids returned by uuid_resolver_handle.snapshot in this run
    sn_tasks,       \* per id: state of the update_handle.snapshot future of this run
    sn_tmpdir,      \* the temporary directory held by the run and its content
    sn_tmpfile,     \* the NamedTempFile held by the run, or by the error it returned
    sn_final,       \* content of <snapshot_path>/<db_name>.snapshot, or "none"
    sn_hist,        \* history of the current run (final file at its start, failures, calls)
    sn_other,       \* tiers on which a call of another caller awaits its reply
    sn_left,        \* temporary directories and files dropped but not removed from the root
    \* ---- actors, handles and the update pipeline ----
    alive,          \* per tier: whether its actor task is running
    mbox,           \* per mailbox: the messages sent and not yet received
    rs_store,       \* uuid resolver: the id bound to each name (0: unbound)
    store,          \* update store: per id, the set of recorded jobs
    cl_pc,          \* per submission call: its position in Data::add_documents
    cl_name,        \* per call: the index name submitted to
    cl_uuid,        \* per call: the id the name resolved to
    cl_reply,       \* per call: the one-shot reply channel of its handle call in flight
    cl_ret,         \* per call: what the call returned to its caller
    cl_dead,        \* per call: the tier found dead by one of its handle calls ("none")
    cl_sent,        \* the calls in the order their Update message was sent
    lp_pc,          \* per id: position of the update store's processing loop
    lp_job,         \* per id: the update_id the loop is processing
    lp_reply,       \* per id: the one-shot reply channel of the loop's handle call
    lp_dead,        \* per id: the loop called the index handle with the actor dead
    applied,        \* per id: the update_ids applied by the index actor, in order
    \* ---- a mailbox under load ----
    mq_mb,          \* the mailbox the callers send to
    mq_next,        \* number of handle calls begun; call k sends message k
    mq_waiting,     \* the messages whose send has not put them into the mailbox yet
    mq_permit,      \* those of them to which the channel has given a freed slot
    mq_received,    \* the messages the actor has received, in order
    \* ---- start of the process (main.rs) ----
    st_pc,          \* position of main
    st_opt,         \* the options of this start: env, master key, ssl configuration
    st_data,        \* Data::new has built the service components in this start
    st_bound,       \* the HTTP listener was bound in this start
    st_result,      \* what main returned: "none" while it runs
    st_starts,      \* number of starts of the process so far
    \* ---- routes (routes/stats.rs) ----
    rt_stats,       \* the outcome of the GET /stats request made, if any
    \* ---- index lifecycle through the facade ----
    nm_store,       \* uuid resolver: the id bound to each name (0: unbound)
    nm_next,        \* uuid resolver: the next fresh id
    nm_mbox,        \* per tier: the mailbox of its actor
    nm_sub,         \* per tier below the resolver: the ids with a sub-store
    nm_pc,          \* per facade call: its position
    nm_op,          \* per facade call: the operation called
    nm_name,        \* per facade call: the index name
    nm_reply,       \* per facade call: the reply channel of its handle call in flight
    nm_ret,         \* per facade call: what it returned
    \* ---- crash and restart of the process ----
    cr_crashes,     \* number of crashes so far
    cr_inproc,      \* per id: the job that was Processing at the last crash (-1: none)
    cr_mark         \* per id: how many jobs the index actor had applied at the last crash

ldvars == <<ld_db, ld_snap, ld_calls, ld_last>>
snvars == <<sn_pc, sn_result, sn_live, sn_uuids, sn_tasks, sn_tmpdir, sn_tmpfile,
            sn_final, sn_hist, sn_other, sn_left>>
ppvars == <<alive, mbox, rs_store, store, cl_pc, cl_name, cl_uuid, cl_reply, cl_ret,
            cl_dead, cl_sent, lp_pc, lp_job, lp_reply, lp_dead, applied>>
mqvars == <<mq_mb, mq_next, mq_waiting, mq_permit, mq_received>>
stvars == <<st_pc, st_opt, st_data, st_bound, st_result, st_starts>>
\* The groups added to the four above.
rtvars == <<rt_stats>>
nmvars == <<nm_store, nm_next, nm_mbox, nm_sub, nm_pc, nm_op, nm_name, nm_reply, nm_ret>>
crvars == <<cr_crashes, cr_inproc, cr_mark>>
xvars == <<stvars, rtvars, nmvars, crvars>>
vars == <<ldvars, snvars, ppvars, mqvars, xvars>>

(***************************************************************************)
(* Bounds of the model.                                                    *)
(***************************************************************************)
\* load_snapshot calls that are counted (one per start of the process)
MaxLoads == 2
\* number of index ids the resolver can hold
NumUuids == 2
\* consecutive failed snapshot attempts that are counted
MaxFails == 1

\* submission calls made through the facade
MaxCalls == 2
\* indexes that exist in the pipeline
NumIndexes == 2

\* handle calls made on the mailbox under load
MaxSends == 102

\* starts of the process that are counted
MaxStarts == 2

\* crashes of the process that are counted
MaxCrashes == 1

\* facade calls on the lifecycle of indexes, and the index names they use
MaxFacadeCalls == 3
NumNames == 1

\* mpsc::channel(100): the capacity of every mailbox
MailboxCapacity == 100

Uuids == 1..NumUuids

(***************************************************************************)
(* LOAD PATH                                                               *)
(***************************************************************************)
\* Trees that can be found at db_path.
\*   "db0"      a database written by an earlier run of the service
\*   "snapdata" the tree a successful extraction of the snapshot leaves
\*   "partial"  the tree a failed extraction leaves behind
DbStates == {"missing", "db0", "snapdata", "partial"}

\* Files that can be found at snapshot_path.
SnapStates == {"missing", "archive"}

\* Path::exists
exists(p) == p # "missing"

\* Outcomes of compression::from_tar_gz(snapshot_path, db_path): it succeeds, or
\* it fails after db_path was created (a partial tree is left), or it fails
\* before db_path was created (the archive cannot be opened, db_path cannot be
\* created).
ExtractOutcomes == {"ok", "fail_partial", "fail_nodir"}

\* compression::from_tar_gz: the result and the tree left at the destination.
from_tar_gz(outcome) ==
    CASE outcome = "ok"           -> [res |-> "Ok", db |-> "snapdata"]
      [] outcome = "fail_partial" -> [res |-> "ErrExtract", db |-> "partial"]
      [] outcome = "fail_nodir"   -> [res |-> "ErrExtract", db |-> "missing"]

\* Outcomes of removing a tree that exists: it is removed, or the removal is
\* refused (an entry that cannot be deleted) and the tree stays.
RemoveOutcomes == {"ok", "denied"}

\* std::fs::remove_dir_all: an error when the path does not exist, and an
\* error that leaves the tree in place when an entry cannot be deleted.
remove_dir_all(db, removal) ==
    IF ~exists(db) THEN [res |-> "ErrRemove", db |-> db]
    ELSE IF removal = "ok" THEN [res |-> "Ok", db |-> "missing"]
    ELSE [res |-> "ErrRemove", db |-> db]

\* load_snapshot extracting whenever the snapshot exists, over a database too.
load_snapshot_overwrite(db, snap, ignore_snapshot_if_db_exists, ignore_missing_snapshot, outcome, removal) ==
    IF exists(snap) /\ (~exists(db) \/ ignore_snapshot_if_db_exists) THEN
        LET x == from_tar_gz(outcome) IN
        IF x.res = "Ok" THEN [res |-> "Ok", db |-> x.db, extract |-> TRUE]
        ELSE LET r == remove_dir_all(IF x.db = "missing" THEN db ELSE x.db, removal) IN
             IF r.res # "Ok" THEN [res |-> r.res, db |-> r.db, extract |-> TRUE]
             ELSE [res |-> x.res, db |-> r.db, extract |-> TRUE]
    ELSE IF exists(db) /\ ~ignore_snapshot_if_db_exists THEN
        [res |-> "ErrDatabaseAlreadyExists", db |-> db, extract |-> FALSE]
    ELSE IF ~exists(snap) /\ ~ignore_missing_snapshot THEN
        [res |-> "ErrSnapshotMissing", db |-> db, extract |-> FALSE]
    ELSE [res |-> "Ok", db |-> db, extract |-> FALSE]

\* load_snapshot with the second and third branch in the other order.
load_snapshot_swapped(db, snap, ignore_snapshot_if_db_exists, ignore_missing_snapshot, outcome, removal) ==
    IF ~exists(db) /\ exists(snap) THEN
        LET x == from_tar_gz(outcome) IN
        IF x.res = "Ok" THEN [res |-> "Ok", db |-> x.db, extract |-> TRUE]
        ELSE LET r == remove_dir_all(x.db, removal) IN
             IF r.res # "Ok" THEN [res |-> r.res, db |-> r.db, extract |-> TRUE]
             ELSE [res |-> x.res, db |-> r.db, extract |-> TRUE]
    ELSE IF ~exists(snap) /\ ~ignore_missing_snapshot THEN
        [res |-> "ErrSnapshotMissing", db |-> db, extract |-> FALSE]
    ELSE IF exists(db) /\ ~ignore_snapshot_if_db_exists THEN
        [res |-> "ErrDatabaseAlreadyExists", db |-> db, extract |-> FALSE]
    ELSE [res |-> "Ok", db |-> db, extract |-> FALSE]

\* load_snapshot, branch by branch as the if/else-if chain of the source.
\* The result names the value returned, the tree at db_path afterwards, and
\* whether the extraction was attempted.
load_snapshot(db, snap, ignore_snapshot_if_db_exists, ignore_missing_snapshot, outcome, removal) ==
    IF ~exists(db) /\ exists(snap) THEN
        LET x == from_tar_gz(outcome) IN
        IF x.res = "Ok" THEN [res |-> "Ok", db |-> x.db, extract |-> TRUE]
        ELSE \* clean created db folder; `?` returns the removal's own error
             LET r == remove_dir_all(x.db, removal) IN
             IF r.res # "Ok" THEN [res |-> r.res, db |-> r.db, extract |-> TRUE]
             ELSE [res |-> x.res, db |-> r.db, extract |-> TRUE]
    ELSE IF exists(db) /\ ~ignore_snapshot_if_db_exists THEN
        [res |-> "ErrDatabaseAlreadyExists", db |-> db, extract |-> FALSE]
    ELSE IF ~exists(snap) /\ ~ignore_missing_snapshot THEN
        [res |-> "ErrSnapshotMissing", db |-> db, extract |-> FALSE]
    ELSE [res |-> "Ok", db |-> db, extract |-> FALSE]

NoCall == [called |-> FALSE, db |-> "missing", snap |-> "missing",
           ign_db |-> FALSE, ign_missing |-> FALSE, outcome |-> "ok",
           res |-> "Ok", extract |-> FALSE]

LoadInit ==
    /\ ld_db \in {"missing", "db0"}
    /\ ld_snap \in SnapStates
    /\ ld_calls = 0
    /\ ld_last = NoCall

\* One start of the process: load_snapshot is called with the command line's
\* flags on the file system as it is.
LoadSnapshotCall ==
    /\ ld_calls < MaxLoads
    /\ \E ign_db \in BOOLEAN, ign_missing \in BOOLEAN, outcome \in ExtractOutcomes,
          removal \in RemoveOutcomes :
         LET r == load_snapshot(ld_db, ld_snap, ign_db, ign_missing, outcome, removal) IN
         /\ ld_db' = r.db
         /\ ld_last' = [called |-> TRUE, db |-> ld_db, snap |-> ld_snap,
                        ign_db |-> ign_db, ign_missing |-> ign_missing,
                        outcome |-> outcome, res |-> r.res, extract |-> r.extract]
    /\ ld_calls' = ld_calls + 1
    /\ UNCHANGED ld_snap

\* Between two starts the operator may put a snapshot file in place or take it
\* away, and the service may have written a database.
LoadEnvSnapshotFile ==
    /\ ld_calls < MaxLoads
    /\ ld_snap' \in SnapStates \ {ld_snap}
    /\ UNCHANGED <<ld_db, ld_calls, ld_last>>

(***************************************************************************)
(* SNAPSHOT SERVICE                                                        *)
(***************************************************************************)
\* A directory tree or an archive of one: whether it exists, whether it holds
\* the uuid resolver's dump, and the ids whose update stores were dumped.
NoFile == [exists |-> FALSE, resolver |-> FALSE, updates |-> {}]
EmptyDir == [exists |-> TRUE, resolver |-> FALSE, updates |-> {}]

\* Outcomes of a call through an actor handle as the snapshot service sees
\* them: the reply is Ok or Err, or the call panics because the actor was
\* killed (handle_impl.rs, `expect`).
CallOutcomes == {"ok", "err", "panic"}

\* The history of a run: the final file at its start, the failures seen,
\* whether the resolver's snapshot succeeded, the snapshot calls made on the
\* lower tiers, in order, and how many of the futures they returned have been
\* polled. `wait` tells what the loop of run has done last
\* about its sleep: nothing yet ("start"), begun it ("sleeping"), or seen it
\* elapse ("elapsed").
NoHist == [final0 |-> NoFile, resolver_failed |-> FALSE, update_failed |-> FALSE,
           fails |-> 0, resolver_ok |-> FALSE, calls |-> <<>>, polled |-> 0,
           wait |-> "start"]

SnapIdle ==
    /\ sn_pc = "off"
    /\ sn_result = "none"
    /\ sn_live = {}
    /\ sn_uuids = {}
    /\ sn_tasks = [u \in Uuids |-> "none"]
    /\ sn_tmpdir = NoFile
    /\ sn_tmpfile = NoFile
    /\ sn_final = NoFile
    /\ sn_hist = NoHist
    /\ sn_other = {}
    /\ sn_left = {}

LoadIdle ==
    /\ ld_db = "missing"
    /\ ld_snap = "missing"
    /\ ld_calls = 0
    /\ ld_last = NoCall

\* The options of a start: MEILI_ENV, whether MEILI_MASTER_KEY is set, and what
\* Opt::get_ssl_config gives (no TLS, a configuration, or an error).
Opts == [env : {"production", "development"}, master_key : BOOLEAN,
         ssl : {"none", "some", "err"}]

NoOpt == [env |-> "development", master_key |-> FALSE, ssl |-> "none"]

StartIdle ==
    /\ st_pc = "off"
    /\ st_opt = NoOpt
    /\ st_data = FALSE
    /\ st_bound = FALSE
    /\ st_result = "none"
    /\ st_starts = 0

\* No stats request was made: no outcome, and per index name what a response
\* reported as isIndexing and what the update store held when it was built.
NoStats == [kind |-> "none", is_indexing |-> <<>>, had_pending |-> <<>>]

RouteIdle == rt_stats = NoStats

FacadeCalls == 1..MaxFacadeCalls
FacadeNames == 1..NumNames

NoFacadeRet == [kind |-> "none", id |-> 0]

NameIdle ==
    /\ nm_store = [n \in FacadeNames |-> 0]
    /\ nm_next = 1
    /\ nm_mbox = [t \in {"resolver", "update", "index"} |-> <<>>]
    /\ nm_sub = [t \in {"update", "index"} |-> {}]
    /\ nm_pc = [c \in FacadeCalls |-> "off"]
    /\ nm_op = [c \in FacadeCalls |-> "none"]
    /\ nm_name = [c \in FacadeCalls |-> 0]
    /\ nm_reply = [c \in FacadeCalls |-> [state |-> "empty", ok |-> FALSE, val |-> 0]]
    /\ nm_ret = [c \in FacadeCalls |-> NoFacadeRet]

CrashIdle ==
    /\ cr_crashes = 0
    /\ cr_inproc = [u \in 1..NumIndexes |-> -1]
    /\ cr_mark = [u \in 1..NumIndexes |-> 0]

\* The added groups at rest.
XIdle == StartIdle /\ RouteIdle /\ NameIdle /\ CrashIdle

\* SnapshotService::new followed by run: the loop starts with an attempt. The
\* snapshot root may hold an archive written by an earlier process.
SnapInit ==
    /\ sn_pc = "perform"
    /\ sn_result = "none"
    /\ sn_live \in SUBSET Uuids
    /\ sn_uuids = {}
    /\ sn_tasks = [u \in Uuids |-> "none"]
    /\ sn_tmpdir = NoFile
    /\ sn_tmpfile = NoFile
    /\ sn_final \in {NoFile} \cup
         {[exists |-> TRUE, resolver |-> TRUE, updates |-> S] : S \in (SUBSET Uuids) \ {{}}}
    /\ sn_hist = NoHist
    /\ sn_other = {}
    /\ sn_left = {}

\* What a run can leave in the snapshot root besides the final file: its
\* temporary directory and its temporary archive file.
Leftovers == {"dir", "file"}

\* TempDir::drop and NamedTempFile::drop: the directory `dir` and the file
\* `file`, where they exist, are removed; a removal that fails is ignored and
\* leaves its target in the snapshot root. The result is the set of the
\* leftovers the root can hold afterwards.
drop_remove(left, dir, file) ==
    {left \cup X : X \in SUBSET ((IF dir.exists THEN {"dir"} ELSE {})
                                  \cup (IF file.exists THEN {"file"} ELSE {}))}

\* A return that keeps the temporary directory of the run on disk.
perform_return_keeps_tempdir(res) ==
    /\ sn_pc' = "returned"
    /\ sn_result' = res
    /\ sn_tmpfile' = NoFile
    /\ UNCHANGED <<sn_tmpdir, sn_left>>

\* perform_snapshot returns `res`: the TempDir and any NamedTempFile of the run
\* are dropped.
perform_return(res) ==
    /\ sn_pc' = "returned"
    /\ sn_result' = res
    /\ sn_tmpdir' = NoFile
    /\ sn_tmpfile' = NoFile
    /\ sn_left' \in drop_remove(sn_left, sn_tmpdir, sn_tmpfile)

\* A call through a handle panics inside perform_snapshot: the run task
\* unwinds, which drops the TempDir as well.
perform_panic ==
    /\ sn_pc' = "panicked"
    /\ sn_tmpdir' = NoFile
    /\ sn_tmpfile' = NoFile
    /\ sn_left' \in drop_remove(sn_left, sn_tmpdir, sn_tmpfile)
    /\ UNCHANGED sn_result

\* perform_snapshot, lines 56-59: a run begins with nothing of the run before
\* it, and create_dir_all makes the snapshot root, which may fail. The task
\* returns to the executor at this await.
PerformBegin ==
    /\ sn_pc = "perform"
    /\ sn_uuids' = {}
    /\ sn_tasks' = [u \in Uuids |-> "none"]
    /\ sn_hist' = [sn_hist EXCEPT !.final0 = sn_final, !.resolver_failed = FALSE,
                                  !.update_failed = FALSE, !.resolver_ok = FALSE,
                                  !.calls = <<>>, !.polled = 0]
    /\ \E io_ok \in BOOLEAN :
         IF io_ok
         THEN /\ sn_pc' = "tempdir_in"
              /\ UNCHANGED <<sn_result, sn_tmpdir, sn_tmpfile, sn_left>>
         ELSE perform_return("Err")
    /\ UNCHANGED <<sn_other, sn_live, sn_final>>

\* perform_snapshot, lines 60-62: tempfile::tempdir_in(snapshot_dir) on the
\* blocking pool makes the temporary directory of the run, or fails (the root
\* may be gone again). No request has been sent to the resolver yet.
PerformTempDir ==
    /\ sn_pc = "tempdir_in"
    /\ \E io_ok \in BOOLEAN :
         IF io_ok
         THEN /\ sn_pc' = "send_snapshot"
              /\ sn_tmpdir' = EmptyDir
              /\ UNCHANGED <<sn_result, sn_tmpfile, sn_left>>
         ELSE perform_return("Err")
    /\ UNCHANGED <<sn_other, sn_live, sn_uuids, sn_tasks, sn_final, sn_hist>>

\* perform_snapshot, lines 63-68: the task is polled with the temporary
\* directory made and calls uuid_resolver_handle.snapshot with its path; the
\* call is in flight.
PerformSendSnapshot ==
    /\ sn_pc = "send_snapshot"
    /\ sn_pc' = "resolver"
    /\ UNCHANGED <<sn_other, sn_result, sn_live, sn_uuids, sn_tasks, sn_tmpdir, sn_tmpfile,
                   sn_final, sn_hist, sn_left>>

\* A join that waits for all tasks and drops their errors.
try_join_all_no_error(tasks, ids) ==
    IF \A u \in ids : tasks[u] \in {"ok", "err"} THEN "Ok" ELSE "Pending"

\* futures::future::try_join_all over the tasks of `ids`: an error as soon as
\* one task failed, Ok once all succeeded.
try_join_all(tasks, ids) ==
    IF \E u \in ids : tasks[u] = "err" THEN "Err"
    ELSE IF \A u \in ids : tasks[u] = "ok" THEN "Ok"
    ELSE "Pending"

\* temp_snapshot_dir.path(): the temporary directory of the run, as opposed to
\* the snapshot root it lies in.
temp_snapshot_path == "tmp"

\* The lists that name each id of S once: what the resolver's snapshot can
\* return for the live ids S.
Orders(S) ==
    {f \in [1..Cardinality(S) -> S] : \A i, j \in 1..Cardinality(S) : i # j => f[i] # f[j]}

\* The ids that occur in a list.
Range(seq) == {seq[i] : i \in 1..Len(seq)}

\* The tasks built for every id the service knows, returned or not.
snapshot_tasks_all_ids(uuids, path) ==
    [i \in 1..NumUuids |-> [tier |-> "update", uuid |-> i, path |-> path]]

\* The tasks with a call of the index actor's snapshot added for every id.
snapshot_tasks_with_index(uuids, path) ==
    [i \in 1..Len(uuids) |-> [tier |-> "update", uuid |-> uuids[i], path |-> path]]
    \o [i \in 1..Len(uuids) |-> [tier |-> "index", uuid |-> uuids[i], path |-> path]]

\* perform_snapshot, lines 74-80: the list of ids is mapped, element by
\* element, to calls of update_handle.snapshot(uuid, temp_snapshot_path), all
\* made as the list is collected; each returns a future.
snapshot_tasks(uuids, path) ==
    [i \in 1..Len(uuids) |-> [tier |-> "update", uuid |-> uuids[i], path |-> path]]

\* A run that goes on with an empty list of ids.
uuids_is_empty_never(uuids) == FALSE

\* perform_snapshot, line 70: uuids.is_empty()
uuids_is_empty(uuids) == Len(uuids) = 0

\* perform_snapshot, lines 65-80: the resolver's reply. On Ok the resolver has
\* written its dump and returns the list of the live ids; an empty list ends
\* the run, else update_handle.snapshot is called for every element of the
\* list and try_join_all begins to poll the futures the calls returned (the
\* join of no future is ready at once).
ResolverSnapshotReply ==
    /\ sn_pc = "resolver"
    /\ \E out \in CallOutcomes :
         CASE out = "ok" ->
                \E uuids \in Orders(sn_live) :
                    /\ sn_uuids' = Range(uuids)
                    /\ IF uuids_is_empty(uuids)
                       THEN /\ perform_return("Ok")
                            /\ sn_hist' = [sn_hist EXCEPT !.resolver_ok = TRUE]
                       ELSE LET tasks == snapshot_tasks(uuids, temp_snapshot_path)
                            IN /\ sn_pc' = IF tasks = <<>> THEN "archive_new" ELSE "polling"
                               /\ sn_hist' = [sn_hist EXCEPT !.resolver_ok = TRUE,
                                                             !.calls = tasks]
                               /\ sn_tmpdir' = [sn_tmpdir EXCEPT !.resolver = TRUE]
                               /\ UNCHANGED <<sn_result, sn_tmpfile, sn_left>>
           [] out = "err" ->
                /\ perform_return("Err")
                /\ sn_hist' = [sn_hist EXCEPT !.resolver_failed = TRUE]
                /\ UNCHANGED sn_uuids
           [] out = "panic" ->
                /\ perform_panic
                /\ UNCHANGED <<sn_uuids, sn_hist>>
    /\ UNCHANGED <<sn_other, sn_live, sn_tasks, sn_final>>

\* perform_snapshot, line 82, the first poll of try_join_all: the futures are
\* polled in the order of the list, and a future of the handle sends its
\* message when it is polled. A future whose result is there already is done
\* at once; the first future that is ready with an error ends the poll, and
\* the futures after it are never polled.
FirstPoll ==
    /\ sn_pc = "polling"
    /\ LET i == sn_hist.polled + 1
           f == sn_hist.calls[i]
       IN \E out \in {"pending"} \cup CallOutcomes :
            IF out = "panic"
            THEN /\ perform_panic
                 /\ sn_hist' = [sn_hist EXCEPT !.polled = i]
                 /\ UNCHANGED sn_tasks
            ELSE LET tasks == IF f.tier = "update"
                              THEN [sn_tasks EXCEPT ![f.uuid] = out] ELSE sn_tasks
                     joined == try_join_all(tasks, sn_uuids)
                     dir == IF out = "ok" /\ f.tier = "update"
                            THEN [sn_tmpdir EXCEPT !.updates = @ \cup {f.uuid}]
                            ELSE sn_tmpdir
                 IN /\ sn_tasks' = tasks
                    /\ sn_hist' = [sn_hist EXCEPT
                                     !.polled = i,
                                     !.update_failed = @ \/ (out = "err" /\ f.tier = "update")]
                    /\ CASE joined = "Err" -> perform_return("Err")
                         [] joined # "Err" /\ i < Len(sn_hist.calls) ->
                              /\ sn_tmpdir' = dir
                              /\ UNCHANGED <<sn_pc, sn_result, sn_tmpfile, sn_left>>
                         [] OTHER ->
                              /\ sn_pc' = IF joined = "Ok" THEN "archive_new" ELSE "join"
                              /\ sn_tmpdir' = dir
                              /\ UNCHANGED <<sn_result, sn_tmpfile, sn_left>>
    /\ UNCHANGED <<sn_other, sn_live, sn_uuids, sn_final>>

\* perform_snapshot, line 82, a later poll of try_join_all: the reply of one
\* update_handle.snapshot(uuid, tmp) has come.
UpdateSnapshotReply(u) ==
    /\ sn_pc = "join"
    /\ sn_tasks[u] = "pending"
    /\ \E out \in CallOutcomes :
         IF out = "panic"
         THEN /\ perform_panic
              /\ UNCHANGED <<sn_tasks, sn_hist>>
         ELSE LET tasks == [sn_tasks EXCEPT ![u] = out]
                  joined == try_join_all(tasks, sn_uuids)
                  dir == IF out = "ok"
                         THEN [sn_tmpdir EXCEPT !.updates = @ \cup {u}]
                         ELSE sn_tmpdir
              IN /\ sn_tasks' = tasks
                 /\ sn_hist' = [sn_hist EXCEPT !.update_failed = @ \/ (out = "err")]
                 /\ CASE joined = "Err" -> perform_return("Err")
                      [] joined = "Ok" ->
                           /\ sn_pc' = "archive_new"
                           /\ sn_tmpdir' = dir
                           /\ UNCHANGED <<sn_result, sn_tmpfile, sn_left>>
                      [] OTHER ->
                           /\ sn_tmpdir' = dir
                           /\ UNCHANGED <<sn_pc, sn_result, sn_tmpfile, sn_left>>
    /\ UNCHANGED <<sn_other, sn_live, sn_uuids, sn_final>>

\* The blocking closure of lines 88-94 ends with an error: what it owned is
\* dropped on the blocking thread, while the task that owns the TempDir is
\* still suspended at the await of line 95.
closure_fail ==
    /\ sn_pc' = "archive_failed"
    /\ sn_tmpfile' = NoFile
    /\ sn_left' \in drop_remove(sn_left, NoFile, sn_tmpfile)
    /\ UNCHANGED <<sn_result, sn_tmpdir>>

\* perform_snapshot, line 89: NamedTempFile::new_in(snapshot_dir).
ArchiveNewTempFile ==
    /\ sn_pc = "archive_new"
    /\ \E io_ok \in BOOLEAN :
         IF io_ok
         THEN /\ sn_pc' = "archive_tar"
              /\ sn_tmpfile' = EmptyDir
              /\ UNCHANGED <<sn_result, sn_tmpdir, sn_left>>
         ELSE closure_fail
    /\ UNCHANGED <<sn_other, sn_live, sn_uuids, sn_tasks, sn_final, sn_hist>>

\* An archive written straight to <db_name>.snapshot.
ArchiveTarGz_to_final ==
    /\ sn_pc = "archive_tar"
    /\ \E io_ok \in BOOLEAN :
         IF io_ok
         THEN /\ sn_pc' = "archive_persist"
              /\ sn_tmpfile' = sn_tmpdir
              /\ sn_final' = sn_tmpdir
              /\ UNCHANGED <<sn_result, sn_tmpdir, sn_left>>
         ELSE /\ closure_fail
              /\ sn_final' = EmptyDir
    /\ UNCHANGED <<sn_other, sn_live, sn_uuids, sn_tasks, sn_hist>>

\* perform_snapshot, line 91: compression::to_tar_gz(tmp dir, temp file). When
\* it fails, `?` ends the closure and the NamedTempFile is dropped with it.
ArchiveTarGz ==
    /\ sn_pc = "archive_tar"
    /\ \E io_ok \in BOOLEAN :
         IF io_ok
         THEN /\ sn_pc' = "archive_persist"
              /\ sn_tmpfile' = sn_tmpdir
              /\ UNCHANGED <<sn_result, sn_tmpdir, sn_left>>
         ELSE closure_fail
    /\ UNCHANGED <<sn_other, sn_live, sn_uuids, sn_tasks, sn_final, sn_hist>>

\* perform_snapshot, lines 92-93: persist, on the blocking pool, renames the
\* temp file onto <db_name>.snapshot while the task that owns the TempDir is
\* suspended. A failed persist hands the NamedTempFile back inside its
\* PersistError, which `?` wraps into the error the closure ends with: the
\* temp file lives as long as that error value does.
ArchivePersist ==
    /\ sn_pc = "archive_persist"
    /\ \E io_ok \in BOOLEAN :
         IF io_ok
         THEN /\ sn_final' = sn_tmpfile
              /\ sn_tmpfile' = NoFile
              /\ sn_pc' = "archive_done"
              /\ UNCHANGED <<sn_result, sn_tmpdir, sn_left>>
         ELSE /\ sn_pc' = "archive_failed"
              /\ UNCHANGED <<sn_result, sn_tmpdir, sn_tmpfile, sn_final, sn_left>>
    /\ UNCHANGED <<sn_other, sn_live, sn_uuids, sn_tasks, sn_hist>>

\* perform_snapshot, lines 95-99: the task is polled again with the result of
\* the blocking closure, logs the snapshot and returns Ok.
PerformFinish ==
    /\ sn_pc = "archive_done"
    /\ perform_return("Ok")
    /\ UNCHANGED <<sn_other, sn_live, sn_uuids, sn_tasks, sn_final, sn_hist>>

\* perform_snapshot, line 95: the task is polled again with the error of the
\* blocking closure and `??` returns it: the TempDir is dropped at the return,
\* a temp file held by the error goes to the caller with it.
PerformFail ==
    /\ sn_pc = "archive_failed"
    /\ sn_pc' = "returned"
    /\ sn_result' = "Err"
    /\ sn_tmpdir' = NoFile
    /\ sn_left' \in drop_remove(sn_left, sn_tmpdir, NoFile)
    /\ UNCHANGED <<sn_tmpfile, sn_other, sn_live, sn_uuids, sn_tasks, sn_final, sn_hist>>

\* run leaving its loop when perform_snapshot returned an error.
run_after_perform_exit ==
    /\ sn_pc = "returned"
    /\ sn_pc' = IF sn_result = "Err" THEN "exited" ELSE "sleep"
    /\ sn_hist' = [sn_hist EXCEPT !.fails =
                     IF sn_result = "Err"
                     THEN (IF @ < MaxFails THEN @ + 1 ELSE @) ELSE 0,
                                  !.wait = "sleeping"]
    /\ sn_tmpfile' = NoFile
    /\ sn_left' \in drop_remove(sn_left, NoFile, sn_tmpfile)
    /\ UNCHANGED <<sn_other, sn_result, sn_live, sn_uuids, sn_tasks, sn_tmpdir, sn_final>>

\* run, lines 48-52: an error is logged and dropped, and with it a temp file
\* it may hold; then the loop goes to sleep.
run_after_perform ==
    /\ sn_pc = "returned"
    /\ sn_pc' = "sleep"
    /\ sn_hist' = [sn_hist EXCEPT !.fails =
                     IF sn_result = "Err"
                     THEN (IF @ < MaxFails THEN @ + 1 ELSE @) ELSE 0,
                                  !.wait = "sleeping"]
    /\ sn_tmpfile' = NoFile
    /\ sn_left' \in drop_remove(sn_left, NoFile, sn_tmpfile)
    /\ UNCHANGED <<sn_other, sn_result, sn_live, sn_uuids, sn_tasks, sn_tmpdir, sn_final>>

\* A loop that gives up a run still awaiting a reply when the period is over.
run_wake_timeout ==
    /\ sn_pc \in {"sleep", "resolver", "join"}
    /\ sn_pc' = "perform"
    /\ sn_hist' = [sn_hist EXCEPT !.wait = "elapsed"]
    /\ UNCHANGED <<sn_other, sn_result, sn_live, sn_uuids, sn_tasks, sn_tmpdir, sn_tmpfile,
                   sn_final, sn_left>>

\* run, line 52: sleep(snapshot_period) elapses and the loop starts over.
run_wake ==
    /\ sn_pc = "sleep"
    /\ sn_pc' = "perform"
    /\ sn_hist' = [sn_hist EXCEPT !.wait = "elapsed"]
    /\ UNCHANGED <<sn_other, sn_result, sn_live, sn_uuids, sn_tasks, sn_tmpdir, sn_tmpfile,
                   sn_final, sn_left>>

\* The rest of the service goes on while the snapshot loop runs: indexes are
\* created and deleted in the uuid resolver.
ResolverCreate(u) ==
    /\ sn_pc # "off"
    /\ u \notin sn_live
    /\ sn_live' = sn_live \cup {u}
    /\ UNCHANGED <<sn_other, sn_pc, sn_result, sn_uuids, sn_tasks, sn_tmpdir, sn_tmpfile,
                   sn_final, sn_hist, sn_left>>

ResolverDelete(u) ==
    /\ sn_pc # "off"
    /\ u \in sn_live
    /\ sn_live' = sn_live \ {u}
    /\ UNCHANGED <<sn_other, sn_pc, sn_result, sn_uuids, sn_tasks, sn_tmpdir, sn_tmpfile,
                   sn_final, sn_hist, sn_left>>

\* The tiers the snapshot service holds a handle of.
SnapshotTiers == {"resolver", "update"}

\* Another task calls through its clone of the handle of tier t while the
\* snapshot loop runs: the message is sent and the reply awaited.
OtherCallerSend(t) ==
    /\ sn_pc # "off"
    /\ t \notin sn_other
    /\ sn_other' = sn_other \cup {t}
    /\ UNCHANGED <<sn_pc, sn_result, sn_live, sn_uuids, sn_tasks, sn_tmpdir, sn_tmpfile,
                   sn_final, sn_hist, sn_left>>

\* The actor of tier t serves the call of the other caller, whatever the
\* snapshot service is waiting for.
OtherCallerReply(t) ==
    /\ sn_pc # "off"
    /\ t \in sn_other
    /\ sn_other' = sn_other \ {t}
    /\ UNCHANGED <<sn_pc, sn_result, sn_live, sn_uuids, sn_tasks, sn_tmpdir, sn_tmpfile,
                   sn_final, sn_hist, sn_left>>

(***************************************************************************)
(* ACTOR HANDLES AND THE UPDATE PIPELINE                                   *)
(***************************************************************************)
Tiers == {"resolver", "update", "index"}

\* The mailboxes: one for the uuid resolver, one for the update actor, a read
\* and a write mailbox for the index actor.
Mailboxes == {"resolver", "update", "index_read", "index_write"}

TierOf(mb) == IF mb \in {"index_read", "index_write"} THEN "index" ELSE mb

Calls == 1..MaxCalls
IndexIds == 1..NumIndexes
\* Index names: name n is bound to id n.
Names == 1..NumIndexes

\* A one-shot reply channel: empty, holding the actor's reply, or with its
\* sender dropped without a reply.
OneshotEmpty == [state |-> "empty", ok |-> FALSE, val |-> 0]
OneshotDropped == [state |-> "dropped", ok |-> FALSE, val |-> 0]
OneshotValue(ok, val) == [state |-> "value", ok |-> ok, val |-> val]

NoMsg == [op |-> "none", name |-> 0, uuid |-> 0, id |-> 0, ret |-> 0]
NoRet == [kind |-> "none", status |-> "none", id |-> 0]

\* Sender::send on an open channel with room: the message goes to the back.
channel_send(q, msg) == Append(q, msg)

\* The mailbox after `let _ = self.sender.send(msg).await`: on a closed channel
\* the send fails, the error is discarded and the message is dropped.
resolver_handle_send(open, q, msg) == IF open THEN channel_send(q, msg) ELSE q

\* The update handle's send putting the message at the front of the mailbox.
update_handle_send_front(open, q, msg) == IF open THEN <<msg>> \o q ELSE q

update_handle_send(open, q, msg) == IF open THEN channel_send(q, msg) ELSE q

\* The index handle's send losing the message while keeping its reply channel.
index_handle_send_lost(open, q, msg) == q

index_handle_send(open, q, msg) == IF open THEN channel_send(q, msg) ELSE q

\* One reply channel shared by all the calls of a handle.
oneshot_channel_shared(c) == 1

\* `let (ret, receiver) = oneshot::channel()`: each call makes a channel of its
\* own, named here by the call; the sender goes into the message.
oneshot_channel(c) == c

\* The reply channel after the send: the message dropped with a failed send
\* takes the reply channel's sender with it.
handler_reply_after_send(open) == IF open THEN OneshotEmpty ELSE OneshotDropped

\* The handle methods send on read_sender, whatever the message.
IndexHandlerMailbox == "index_read"

\* A handle call that turns a dropped reply channel into an error value.
handler_await_internal(reply) ==
    CASE reply.state = "dropped" -> "Err"
      [] reply.state = "value" /\ reply.ok -> "Ok"
      [] reply.state = "value" /\ ~reply.ok -> "Err"
      [] OTHER -> "pending"

\* `Ok(receiver.await.expect("... has been killed")?)`: the call panics when
\* the reply channel's sender was dropped, else returns the actor's reply.
handler_await(reply) ==
    CASE reply.state = "dropped" -> "panic"
      [] reply.state = "value" /\ reply.ok -> "Ok"
      [] reply.state = "value" /\ ~reply.ok -> "Err"
      [] OTHER -> "pending"

\* IndexActorHandle::update returning before the actor has replied.
index_handle_update_no_wait(reply) ==
    IF reply.state = "empty" THEN "Ok" ELSE handler_await(reply)

\* IndexActorHandle::update as the processing loop awaits it.
index_handle_update(reply) == handler_await(reply)

PipeIdle ==
    /\ alive = [t \in Tiers |-> FALSE]
    /\ mbox = [m \in Mailboxes |-> <<>>]
    /\ rs_store = [n \in Names |-> 0]
    /\ store = [u \in IndexIds |-> {}]
    /\ cl_pc = [c \in Calls |-> "off"]
    /\ cl_name = [c \in Calls |-> 0]
    /\ cl_uuid = [c \in Calls |-> 0]
    /\ cl_reply = [c \in Calls |-> OneshotEmpty]
    /\ cl_ret = [c \in Calls |-> NoRet]
    /\ cl_dead = [c \in Calls |-> "none"]
    /\ cl_sent = <<>>
    /\ lp_pc = [u \in IndexIds |-> "off"]
    /\ lp_job = [u \in IndexIds |-> 0]
    /\ lp_reply = [u \in IndexIds |-> OneshotEmpty]
    /\ lp_dead = [u \in IndexIds |-> FALSE]
    /\ applied = [u \in IndexIds |-> <<>>]

\* The handles are built (each spawns its actor) and the indexes 1..NumIndexes
\* exist, with empty update stores.
PipeInit ==
    /\ alive = [t \in Tiers |-> TRUE]
    /\ mbox = [m \in Mailboxes |-> <<>>]
    /\ rs_store = [n \in Names |-> n]
    /\ store = [u \in IndexIds |-> {}]
    /\ cl_pc = [c \in Calls |-> "idle"]
    /\ cl_name = [c \in Calls |-> 0]
    /\ cl_uuid = [c \in Calls |-> 0]
    /\ cl_reply = [c \in Calls |-> OneshotEmpty]
    /\ cl_ret = [c \in Calls |-> NoRet]
    /\ cl_dead = [c \in Calls |-> "none"]
    /\ cl_sent = <<>>
    /\ lp_pc = [u \in IndexIds |-> "idle"]
    /\ lp_job = [u \in IndexIds |-> 0]
    /\ lp_reply = [u \in IndexIds |-> OneshotEmpty]
    /\ lp_dead = [u \in IndexIds |-> FALSE]
    /\ applied = [u \in IndexIds |-> <<>>]

\* A channel that takes one message more than its capacity.
channel_has_room_off_by_one(q, reserved) == Len(q) + reserved <= MailboxCapacity

\* mpsc::channel(100): a send finds a free slot while the messages in the
\* channel and the slots reserved for waiting sends are fewer than 100.
channel_has_room(q, reserved) == Len(q) + reserved < MailboxCapacity

\* A send on a full mailbox waits for a slot; on a closed one it fails at once.
CanSend(mb) == ~alive[TierOf(mb)] \/ channel_has_room(mbox[mb], 0)

MboxIdle ==
    /\ mq_mb = "none"
    /\ mq_next = 0
    /\ mq_waiting = {}
    /\ mq_permit = {}
    /\ mq_received = <<>>


Msg(op, name, uuid, id, ret) ==
    [op |-> op, name |-> name, uuid |-> uuid, id |-> id, ret |-> ret]

\* The messages of a mailbox as a set.
MsgsIn(mb) == {mbox[mb][i] : i \in 1..Len(mbox[mb])}

Terminal(state) == state \in {"Processed", "Failed"}

SetMax(S) == CHOOSE x \in S : \A y \in S : y <= x
SetMin(S) == CHOOSE x \in S : \A y \in S : x <= y

\* The update store's allocation of the next update_id: 0 in a fresh store,
\* else the highest recorded id plus one.
next_update_id(jobs) ==
    IF jobs = {} THEN 0 ELSE SetMax({j.id : j \in jobs}) + 1

\* The jobs of a store with the state of job `id` set to `state`.
with_state(jobs, id, state) ==
    {IF j.id = id THEN [j EXCEPT !.state = state] ELSE j : j \in jobs}

\* The indexes are interchangeable and so are the calls: calls start in the
\* order of their numbers, and they name the indexes in the order of first use.
FirstUnused == SetMax({0} \cup {cl_name[c] : c \in Calls}) + 1

\* Data::add_documents (and the other submissions), first step: the index
\* controller resolves the name through the uuid resolver's handle.
Submit(c, n) ==
    /\ cl_pc[c] = "idle"
    /\ IF c = 1 THEN TRUE ELSE cl_pc[c - 1] # "idle"
    /\ n <= FirstUnused
    /\ CanSend("resolver")
    /\ LET open == alive["resolver"] IN
       /\ mbox' = [mbox EXCEPT !["resolver"] =
                     resolver_handle_send(open, @, Msg("Get", n, 0, 0, oneshot_channel(c)))]
       /\ cl_reply' = [cl_reply EXCEPT ![c] = handler_reply_after_send(open)]
       /\ cl_dead' = IF open THEN cl_dead ELSE [cl_dead EXCEPT ![c] = "resolver"]
    /\ cl_pc' = [cl_pc EXCEPT ![c] = "resolving"]
    /\ cl_name' = [cl_name EXCEPT ![c] = n]
    /\ UNCHANGED <<alive, rs_store, store, cl_uuid, cl_ret, cl_sent, lp_pc, lp_job,
                   lp_reply, lp_dead, applied>>

\* The uuid resolver's actor receives a Get and replies with the id bound to
\* the name, or with an error when there is none.
ResolverActorStep ==
    /\ alive["resolver"]
    /\ mbox["resolver"] # <<>>
    /\ LET m == Head(mbox["resolver"]) IN
       cl_reply' = [cl_reply EXCEPT ![m.ret] =
                      IF rs_store[m.name] # 0
                      THEN OneshotValue(TRUE, rs_store[m.name])
                      ELSE OneshotValue(FALSE, 0)]
    /\ mbox' = [mbox EXCEPT !["resolver"] = Tail(@)]
    /\ UNCHANGED <<alive, rs_store, store, cl_pc, cl_name, cl_uuid, cl_ret, cl_dead,
                   cl_sent, lp_pc, lp_job, lp_reply, lp_dead, applied>>

\* The resolver's reply reaches the submission: a panic when the actor was
\* killed, the error when the name is unknown, else the Update message is sent
\* through the update actor's handle.
CallResolved(c) ==
    /\ cl_pc[c] = "resolving"
    /\ LET r == handler_await(cl_reply[c]) IN
       CASE r = "panic" ->
              /\ cl_pc' = [cl_pc EXCEPT ![c] = "panicked"]
              /\ UNCHANGED <<mbox, cl_uuid, cl_reply, cl_ret, cl_dead, cl_sent>>
         [] r = "Err" ->
              /\ cl_pc' = [cl_pc EXCEPT ![c] = "returned"]
              /\ cl_ret' = [cl_ret EXCEPT ![c] = [NoRet EXCEPT !.kind = "Err"]]
              /\ UNCHANGED <<mbox, cl_uuid, cl_reply, cl_dead, cl_sent>>
         [] r = "Ok" ->
              /\ CanSend("update")
              /\ LET open == alive["update"]
                     uuid == cl_reply[c].val
                 IN /\ mbox' = [mbox EXCEPT !["update"] =
                                  update_handle_send(open, @, Msg("Update", 0, uuid, 0, oneshot_channel(c)))]
                    /\ cl_reply' = [cl_reply EXCEPT ![c] = handler_reply_after_send(open)]
                    /\ cl_dead' = IF open THEN cl_dead
                                  ELSE [cl_dead EXCEPT ![c] = "update"]
                    /\ cl_sent' = IF open THEN Append(cl_sent, c) ELSE cl_sent
                    /\ cl_uuid' = [cl_uuid EXCEPT ![c] = uuid]
              /\ cl_pc' = [cl_pc EXCEPT ![c] = "submitting"]
              /\ UNCHANGED cl_ret
         [] OTHER -> FALSE
    /\ UNCHANGED <<alive, rs_store, store, cl_name, lp_pc, lp_job, lp_reply, lp_dead,
                   applied>>

\* The update actor receives an Update: the job is recorded as Enqueued under
\* the next update_id and the enqueued status is the reply.
UpdateActorStep ==
    /\ alive["update"]
    /\ mbox["update"] # <<>>
    /\ LET m == Head(mbox["update"])
           id == next_update_id(store[m.uuid])
       IN /\ store' = [store EXCEPT ![m.uuid] =
                         @ \cup {[id |-> id, state |-> "Enqueued", call |-> m.ret]}]
          /\ cl_reply' = [cl_reply EXCEPT ![m.ret] = OneshotValue(TRUE, id)]
    /\ mbox' = [mbox EXCEPT !["update"] = Tail(@)]
    /\ UNCHANGED <<alive, rs_store, cl_pc, cl_name, cl_uuid, cl_ret, cl_dead, cl_sent,
                   lp_pc, lp_job, lp_reply, lp_dead, applied>>

\* The job a call's submission recorded, as a set (empty before it is recorded).
JobOf(c) ==
    IF cl_uuid[c] = 0 THEN {} ELSE {j \in store[cl_uuid[c]] : j.call = c}

\* A submission that returns only once its job has been processed.
add_documents_ready_when_processed(c) ==
    /\ handler_await(cl_reply[c]) # "pending"
    /\ \A j \in JobOf(c) : Terminal(j.state)

\* Data::add_documents can return: the awaited call of the index controller
\* has its result.
add_documents_ready(c) == handler_await(cl_reply[c]) # "pending"

\* Data::add_documents returns what the update actor replied.
CallReturn(c) ==
    /\ cl_pc[c] = "submitting"
    /\ add_documents_ready(c)
    /\ LET r == handler_await(cl_reply[c]) IN
       IF r = "panic"
       THEN /\ cl_pc' = [cl_pc EXCEPT ![c] = "panicked"]
            /\ UNCHANGED cl_ret
       ELSE /\ cl_pc' = [cl_pc EXCEPT ![c] = "returned"]
            /\ cl_ret' = [cl_ret EXCEPT ![c] =
                            IF r = "Ok"
                            THEN [kind |-> "Ok", status |-> "Enqueued",
                                  id |-> cl_reply[c].val]
                            ELSE [NoRet EXCEPT !.kind = "Err"]]
    /\ UNCHANGED <<alive, mbox, rs_store, store, cl_name, cl_uuid, cl_reply, cl_dead,
                   cl_sent, lp_pc, lp_job, lp_reply, lp_dead, applied>>

\* The processing loop of index u takes the lowest Enqueued job, records it as
\* Processing and hands it to the index actor through IndexActorHandle::update.
\* A job in Processing is the single active job of its index.
LoopStart(u) ==
    /\ lp_pc[u] = "idle"
    /\ \E j \in store[u] : j.state = "Enqueued"
    /\ ~\E j \in store[u] : j.state = "Processing"
    /\ CanSend(IndexHandlerMailbox)
    /\ LET id == SetMin({j.id : j \in {k \in store[u] : k.state = "Enqueued"}})
           open == alive["index"]
       IN /\ store' = [store EXCEPT ![u] = with_state(@, id, "Processing")]
          /\ mbox' = [mbox EXCEPT ![IndexHandlerMailbox] =
                        index_handle_send(open, @, Msg("Update", 0, u, id, oneshot_channel(u)))]
          /\ lp_reply' = [lp_reply EXCEPT ![u] = handler_reply_after_send(open)]
          /\ lp_dead' = IF open THEN lp_dead ELSE [lp_dead EXCEPT ![u] = TRUE]
          /\ lp_job' = [lp_job EXCEPT ![u] = id]
    /\ lp_pc' = [lp_pc EXCEPT ![u] = "awaiting"]
    /\ UNCHANGED <<alive, rs_store, cl_pc, cl_name, cl_uuid, cl_reply, cl_ret, cl_dead,
                   cl_sent, applied>>

\* The index actor receives an Update from one of its two mailboxes, applies
\* the job (with success or not) and replies.
IndexActorStep ==
    /\ alive["index"]
    /\ \E mb \in {"index_read", "index_write"} :
         /\ mbox[mb] # <<>>
         /\ LET m == Head(mbox[mb]) IN
            /\ applied' = [applied EXCEPT ![m.uuid] = Append(@, m.id)]
            /\ \E ok \in BOOLEAN :
                 lp_reply' = [lp_reply EXCEPT ![m.ret] = OneshotValue(ok, m.id)]
         /\ mbox' = [mbox EXCEPT ![mb] = Tail(@)]
    /\ UNCHANGED <<alive, rs_store, store, cl_pc, cl_name, cl_uuid, cl_reply, cl_ret,
                   cl_dead, cl_sent, lp_pc, lp_job, lp_dead>>

\* The index actor's reply reaches the processing loop, which records the
\* terminal state; a killed index actor makes the loop's call panic.
LoopFinish(u) ==
    /\ lp_pc[u] = "awaiting"
    /\ LET r == index_handle_update(lp_reply[u]) IN
       CASE r = "panic" ->
              /\ lp_pc' = [lp_pc EXCEPT ![u] = "panicked"]
              /\ UNCHANGED store
         [] r = "Ok" ->
              /\ lp_pc' = [lp_pc EXCEPT ![u] = "idle"]
              /\ store' = [store EXCEPT ![u] = with_state(@, lp_job[u], "Processed")]
         [] r = "Err" ->
              /\ lp_pc' = [lp_pc EXCEPT ![u] = "idle"]
              /\ store' = [store EXCEPT ![u] = with_state(@, lp_job[u], "Failed")]
         [] OTHER -> FALSE
    /\ UNCHANGED <<alive, mbox, rs_store, cl_pc, cl_name, cl_uuid, cl_reply, cl_ret,
                   cl_dead, cl_sent, lp_job, lp_reply, lp_dead, applied>>

\* The actor task of a tier terminates: its receivers are dropped, and every
\* message still in a mailbox of the tier is dropped with its reply channel.
KillActor(t) ==
    /\ alive[t]
    /\ alive' = [alive EXCEPT ![t] = FALSE]
    /\ mbox' = [mb \in Mailboxes |-> IF TierOf(mb) = t THEN <<>> ELSE mbox[mb]]
    /\ IF t = "index"
       THEN /\ lp_reply' = [u \in IndexIds |->
                              IF \E m \in MsgsIn("index_read") \cup MsgsIn("index_write") :
                                   m.ret = u
                              THEN OneshotDropped ELSE lp_reply[u]]
            /\ UNCHANGED cl_reply
       ELSE /\ cl_reply' = [c \in Calls |->
                              IF \E m \in MsgsIn(t) : m.ret = c
                              THEN OneshotDropped ELSE cl_reply[c]]
            /\ UNCHANGED lp_reply
    /\ UNCHANGED <<rs_store, store, cl_pc, cl_name, cl_uuid, cl_ret, cl_dead, cl_sent,
                   lp_pc, lp_job, lp_dead, applied>>

\* routes/stats.rs, lines 28-34 and 44-47: the bodies of index_stats and
\* get_stats are `todo!()`; the handler panics, whatever the state of the
\* indexes, and no response is built.
get_stats(pending) == [kind |-> "panic", is_indexing |-> <<>>]

\* A client requests GET /stats while the pipeline runs. With a response, the
\* record keeps what the update stores held when it was built.
GetStats ==
    /\ rt_stats.kind = "none"
    /\ LET pending == [n \in Names |->
                        \E j \in store[rs_store[n]] : j.state \in {"Enqueued", "Processing"}]
           r == get_stats(pending)
       IN rt_stats' = [kind |-> r.kind, is_indexing |-> r.is_indexing,
                       had_pending |-> IF r.kind = "Ok" THEN pending ELSE <<>>]

PipeSpecInit == PipeInit /\ LoadIdle /\ SnapIdle /\ MboxIdle /\ XIdle

PipeNext ==
    \/ (\E c \in Calls, n \in Names : Submit(c, n)) /\ UNCHANGED <<ldvars, snvars, mqvars, xvars>>
    \/ ResolverActorStep /\ UNCHANGED <<ldvars, snvars, mqvars, xvars>>
    \/ (\E c \in Calls : CallResolved(c)) /\ UNCHANGED <<ldvars, snvars, mqvars, xvars>>
    \/ UpdateActorStep /\ UNCHANGED <<ldvars, snvars, mqvars, xvars>>
    \/ (\E c \in Calls : CallReturn(c)) /\ UNCHANGED <<ldvars, snvars, mqvars, xvars>>
    \/ (\E u \in IndexIds : LoopStart(u)) /\ UNCHANGED <<ldvars, snvars, mqvars, xvars>>
    \/ IndexActorStep /\ UNCHANGED <<ldvars, snvars, mqvars, xvars>>
    \/ (\E u \in IndexIds : LoopFinish(u)) /\ UNCHANGED <<ldvars, snvars, mqvars, xvars>>
    \/ (\E t \in Tiers : KillActor(t)) /\ UNCHANGED <<ldvars, snvars, mqvars, xvars>>
    \/ GetStats /\ UNCHANGED <<ldvars, snvars, mqvars, ppvars, stvars, nmvars, crvars>>

\* The pipeline with actors that may terminate at any time.
PipeSpec == PipeSpecInit /\ [][PipeNext]_vars

\* The steps of the pipeline while no actor terminates.
PipeLiveNext ==
    \/ (\E c \in Calls, n \in Names : Submit(c, n)) /\ UNCHANGED <<ldvars, snvars, mqvars, xvars>>
    \/ ResolverActorStep /\ UNCHANGED <<ldvars, snvars, mqvars, xvars>>
    \/ (\E c \in Calls : CallResolved(c)) /\ UNCHANGED <<ldvars, snvars, mqvars, xvars>>
    \/ UpdateActorStep /\ UNCHANGED <<ldvars, snvars, mqvars, xvars>>
    \/ (\E c \in Calls : CallReturn(c)) /\ UNCHANGED <<ldvars, snvars, mqvars, xvars>>
    \/ (\E u \in IndexIds : LoopStart(u)) /\ UNCHANGED <<ldvars, snvars, mqvars, xvars>>
    \/ IndexActorStep /\ UNCHANGED <<ldvars, snvars, mqvars, xvars>>
    \/ (\E u \in IndexIds : LoopFinish(u)) /\ UNCHANGED <<ldvars, snvars, mqvars, xvars>>

\* The runtime schedules every task that can run: the actors, the processing
\* loops and the callers' tasks. Submissions are under no obligation to happen.
PipeFairness ==
    /\ WF_vars(ResolverActorStep /\ UNCHANGED <<ldvars, snvars, mqvars, xvars>>)
    /\ WF_vars(UpdateActorStep /\ UNCHANGED <<ldvars, snvars, mqvars, xvars>>)
    /\ WF_vars(IndexActorStep /\ UNCHANGED <<ldvars, snvars, mqvars, xvars>>)
    /\ \A c \in Calls : WF_vars(CallResolved(c) /\ UNCHANGED <<ldvars, snvars, mqvars, xvars>>)
    /\ \A c \in Calls : WF_vars(CallReturn(c) /\ UNCHANGED <<ldvars, snvars, mqvars, xvars>>)
    /\ \A u \in IndexIds : WF_vars(LoopStart(u) /\ UNCHANGED <<ldvars, snvars, mqvars, xvars>>)
    /\ \A u \in IndexIds : WF_vars(LoopFinish(u) /\ UNCHANGED <<ldvars, snvars, mqvars, xvars>>)

\* The pipeline without a crash, under fair scheduling.
PipeFairSpec == PipeSpecInit /\ [][PipeLiveNext]_vars /\ PipeFairness

(***************************************************************************)
(* A MAILBOX UNDER LOAD                                                    *)
(***************************************************************************)
\* The mailboxes the handles send to.
LoadedMailboxes == {"resolver", "update", IndexHandlerMailbox}

\* The handle's send of each tier.
handle_send(mb, open, q, msg) ==
    CASE mb = "resolver" -> resolver_handle_send(open, q, msg)
      [] mb = "update" -> update_handle_send(open, q, msg)
      [] OTHER -> index_handle_send(open, q, msg)

\* The actors run, and any number of callers hold clones of one tier's handle.
MboxInit ==
    /\ mq_mb \in LoadedMailboxes
    /\ mq_next = 0
    /\ mq_waiting = {}
    /\ mq_permit = {}
    /\ mq_received = <<>>
    /\ alive = [t \in Tiers |-> TRUE]
    /\ mbox = [m \in Mailboxes |-> <<>>]
    /\ rs_store = [n \in Names |-> 0]
    /\ store = [u \in IndexIds |-> {}]
    /\ cl_pc = [c \in Calls |-> "off"]
    /\ cl_name = [c \in Calls |-> 0]
    /\ cl_uuid = [c \in Calls |-> 0]
    /\ cl_reply = [c \in Calls |-> OneshotEmpty]
    /\ cl_ret = [c \in Calls |-> NoRet]
    /\ cl_dead = [c \in Calls |-> "none"]
    /\ cl_sent = <<>>
    /\ lp_pc = [u \in IndexIds |-> "off"]
    /\ lp_job = [u \in IndexIds |-> 0]
    /\ lp_reply = [u \in IndexIds |-> OneshotEmpty]
    /\ lp_dead = [u \in IndexIds |-> FALSE]
    /\ applied = [u \in IndexIds |-> <<>>]

MboxFrame ==
    UNCHANGED <<alive, rs_store, store, cl_pc, cl_name, cl_uuid, cl_reply, cl_ret,
                cl_dead, cl_sent, lp_pc, lp_job, lp_reply, lp_dead, applied, mq_mb>>

\* A caller begins a handle call: message k is built and sent. With a slot
\* that is neither taken by a message nor given to a waiting send, the message
\* is in the mailbox at once; else the send waits.
SendBegin ==
    /\ mq_mb \in LoadedMailboxes
    /\ mq_next < MaxSends
    /\ LET k == mq_next + 1 IN
       /\ mq_next' = k
       /\ IF channel_has_room(mbox[mq_mb], Cardinality(mq_permit))
          THEN /\ mbox' = [mbox EXCEPT ![mq_mb] =
                             handle_send(mq_mb, alive[TierOf(mq_mb)], @,
                                         Msg("Call", 0, 0, k, k))]
               /\ UNCHANGED mq_waiting
          ELSE /\ mq_waiting' = mq_waiting \cup {k}
               /\ UNCHANGED mbox
    /\ UNCHANGED <<mq_permit, mq_received>>
    /\ MboxFrame

\* The task of a waiting send that has been given a slot is scheduled and puts
\* its message into the mailbox. The runtime schedules such tasks in any order.
SendResume(k) ==
    /\ mq_mb \in LoadedMailboxes
    /\ k \in mq_permit
    /\ mbox' = [mbox EXCEPT ![mq_mb] =
                  handle_send(mq_mb, alive[TierOf(mq_mb)], @, Msg("Call", 0, 0, k, k))]
    /\ mq_waiting' = mq_waiting \ {k}
    /\ mq_permit' = mq_permit \ {k}
    /\ UNCHANGED <<mq_next, mq_received>>
    /\ MboxFrame

\* The actor receives the message at the head of its mailbox; the channel
\* gives the slot this frees to the oldest send that waits without one.
ActorReceive ==
    /\ mq_mb \in LoadedMailboxes
    /\ alive[TierOf(mq_mb)]
    /\ mbox[mq_mb] # <<>>
    /\ mq_received' = Append(mq_received, Head(mbox[mq_mb]).id)
    /\ mbox' = [mbox EXCEPT ![mq_mb] = Tail(@)]
    /\ mq_permit' = IF mq_waiting \ mq_permit = {} THEN mq_permit
                    ELSE mq_permit \cup {SetMin(mq_waiting \ mq_permit)}
    /\ UNCHANGED <<mq_next, mq_waiting>>
    /\ MboxFrame

MboxSpecInit == MboxInit /\ LoadIdle /\ SnapIdle /\ XIdle

MboxNext ==
    \/ SendBegin /\ UNCHANGED <<ldvars, snvars, xvars>>
    \/ (\E k \in 1..MaxSends : SendResume(k)) /\ UNCHANGED <<ldvars, snvars, xvars>>
    \/ ActorReceive /\ UNCHANGED <<ldvars, snvars, xvars>>

\* The runtime schedules the actor and every caller whose send can go on.
MboxSpec ==
    /\ MboxSpecInit
    /\ [][MboxNext]_vars
    /\ WF_vars(ActorReceive /\ UNCHANGED <<ldvars, snvars, xvars>>)
    /\ WF_vars((\E k \in 1..MaxSends : SendResume(k)) /\ UNCHANGED <<ldvars, snvars, xvars>>)

LoadSpecInit == LoadInit /\ SnapIdle /\ PipeIdle /\ MboxIdle /\ XIdle

LoadNext ==
    \/ LoadSnapshotCall /\ UNCHANGED <<snvars, ppvars, mqvars, xvars>>
    \/ LoadEnvSnapshotFile /\ UNCHANGED <<snvars, ppvars, mqvars, xvars>>

LoadSpec == LoadSpecInit /\ [][LoadNext]_vars

SnapSpecInit == SnapInit /\ LoadIdle /\ PipeIdle /\ MboxIdle /\ XIdle

SnapNext ==
    \/ PerformBegin /\ UNCHANGED <<ldvars, ppvars, mqvars, xvars>>
    \/ PerformTempDir /\ UNCHANGED <<ldvars, ppvars, mqvars, xvars>>
    \/ PerformSendSnapshot /\ UNCHANGED <<ldvars, ppvars, mqvars, xvars>>
    \/ ResolverSnapshotReply /\ UNCHANGED <<ldvars, ppvars, mqvars, xvars>>
    \/ FirstPoll /\ UNCHANGED <<ldvars, ppvars, mqvars, xvars>>
    \/ (\E u \in Uuids : UpdateSnapshotReply(u)) /\ UNCHANGED <<ldvars, ppvars, mqvars, xvars>>
    \/ ArchiveNewTempFile /\ UNCHANGED <<ldvars, ppvars, mqvars, xvars>>
    \/ ArchiveTarGz /\ UNCHANGED <<ldvars, ppvars, mqvars, xvars>>
    \/ ArchivePersist /\ UNCHANGED <<ldvars, ppvars, mqvars, xvars>>
    \/ PerformFinish /\ UNCHANGED <<ldvars, ppvars, mqvars, xvars>>
    \/ PerformFail /\ UNCHANGED <<ldvars, ppvars, mqvars, xvars>>
    \/ run_after_perform /\ UNCHANGED <<ldvars, ppvars, mqvars, xvars>>
    \/ run_wake /\ UNCHANGED <<ldvars, ppvars, mqvars, xvars>>
    \/ (\E u \in Uuids : ResolverCreate(u)) /\ UNCHANGED <<ldvars, ppvars, mqvars, xvars>>
    \/ (\E u \in Uuids : ResolverDelete(u)) /\ UNCHANGED <<ldvars, ppvars, mqvars, xvars>>
    \/ (\E t \in SnapshotTiers : OtherCallerSend(t)) /\ UNCHANGED <<ldvars, ppvars, mqvars, xvars>>
    \/ (\E t \in SnapshotTiers : OtherCallerReply(t)) /\ UNCHANGED <<ldvars, ppvars, mqvars, xvars>>

SnapSpec == SnapSpecInit /\ [][SnapNext]_vars

(***************************************************************************)
(* START OF THE PROCESS (main.rs)                                          *)
(***************************************************************************)
\* A start that refuses every configuration without a master key.
master_key_required_always(opt) == ~opt.master_key

\* main, lines 32-33: in production a missing master key is an error.
master_key_required(opt) == opt.env = "production" /\ ~opt.master_key

\* The process is started with some options.
StartInit ==
    /\ st_pc = "main"
    /\ st_opt \in Opts
    /\ st_data = FALSE
    /\ st_bound = FALSE
    /\ st_result = "none"
    /\ st_starts = 1

\* main returns `res`.
main_return(res) ==
    /\ st_pc' = "exited"
    /\ st_result' = res

\* main, lines 31-51: the match on opt.env.
main_match_env ==
    /\ st_pc = "main"
    /\ IF master_key_required(st_opt)
       THEN main_return("ErrMasterKey")
       ELSE st_pc' = "env_checked" /\ UNCHANGED st_result
    /\ UNCHANGED <<st_opt, st_data, st_bound, st_starts>>

\* main, line 57: Data::new(opt.clone())?
main_data_new ==
    /\ st_pc = "env_checked"
    /\ \E ok \in BOOLEAN :
         IF ok
         THEN /\ st_pc' = "data_built"
              /\ st_data' = TRUE
              /\ UNCHANGED st_result
         ELSE /\ main_return("ErrData")
              /\ UNCHANGED st_data
    /\ UNCHANGED <<st_opt, st_bound, st_starts>>

\* main, lines 73-77, and run_http, lines 87-91: the launch resume is printed,
\* the server is built and opt.get_ssl_config()? is evaluated.
run_http_ssl_config ==
    /\ st_pc = "data_built"
    /\ IF st_opt.ssl = "err"
       THEN main_return("ErrSsl")
       ELSE st_pc' = "binding" /\ UNCHANGED st_result
    /\ UNCHANGED <<st_opt, st_data, st_bound, st_starts>>

\* run_http, lines 92-97: bind_rustls or bind, each with `?`.
run_http_bind ==
    /\ st_pc = "binding"
    /\ \E ok \in BOOLEAN :
         IF ok
         THEN /\ st_pc' = "serving"
              /\ st_bound' = TRUE
              /\ UNCHANGED st_result
         ELSE /\ main_return("ErrBind")
              /\ UNCHANGED st_bound
    /\ UNCHANGED <<st_opt, st_data, st_starts>>

\* run_http, lines 94-99, and main, line 79: the server runs until it is
\* stopped; run().await gives Ok or an io error.
run_http_run ==
    /\ st_pc = "serving"
    /\ \E ok \in BOOLEAN : main_return(IF ok THEN "Ok" ELSE "ErrRun")
    /\ UNCHANGED <<st_opt, st_data, st_bound, st_starts>>

\* The process is started again, with the options of the new command line.
StartAgain ==
    /\ st_pc = "exited"
    /\ st_starts < MaxStarts
    /\ st_pc' = "main"
    /\ st_opt' \in Opts
    /\ st_data' = FALSE
    /\ st_bound' = FALSE
    /\ st_result' = "none"
    /\ st_starts' = st_starts + 1

StartSpecInit ==
    StartInit /\ LoadIdle /\ SnapIdle /\ PipeIdle /\ MboxIdle /\ RouteIdle /\ NameIdle /\ CrashIdle

StartNext ==
    \/ main_match_env /\ UNCHANGED <<ldvars, snvars, ppvars, mqvars, rtvars, nmvars, crvars>>
    \/ main_data_new /\ UNCHANGED <<ldvars, snvars, ppvars, mqvars, rtvars, nmvars, crvars>>
    \/ run_http_ssl_config /\ UNCHANGED <<ldvars, snvars, ppvars, mqvars, rtvars, nmvars, crvars>>
    \/ run_http_bind /\ UNCHANGED <<ldvars, snvars, ppvars, mqvars, rtvars, nmvars, crvars>>
    \/ run_http_run /\ UNCHANGED <<ldvars, snvars, ppvars, mqvars, rtvars, nmvars, crvars>>
    \/ StartAgain /\ UNCHANGED <<ldvars, snvars, ppvars, mqvars, rtvars, nmvars, crvars>>

StartSpec == StartSpecInit /\ [][StartNext]_vars

(***************************************************************************)
(* INDEX LIFECYCLE THROUGH THE FACADE                                      *)
(***************************************************************************)
\* The handle methods of the uuid resolver (handler!, get / create / delete /
\* list / insert) and the message each sends.
ResolverMessage(op) ==
    CASE op = "get" -> "Get"
      [] op = "create" -> "Create"
      [] op = "delete_index" -> "Delete"
      [] op = "list" -> "List"
      [] op = "insert" -> "Insert"

FacadeOps == {"get", "create", "delete_index"}

\* The ids a caller of insert can choose: one that the resolver has given out
\* or will give out, or another one.
InsertIds == 1..(NumNames + 1)

\* The service runs with n0 indexes created earlier: names 1..n0 are bound to
\* the ids 1..n0, and both lower tiers hold a sub-store for each.
NameInit ==
    \E n0 \in 0..NumNames :
        /\ nm_store = [n \in FacadeNames |-> IF n <= n0 THEN n ELSE 0]
        /\ nm_next = n0 + 1
        /\ nm_mbox = [t \in {"resolver", "update", "index"} |-> <<>>]
        /\ nm_sub = [t \in {"update", "index"} |-> 1..n0]
        /\ nm_pc = [c \in FacadeCalls |-> "idle"]
        /\ nm_op = [c \in FacadeCalls |-> "none"]
        /\ nm_name = [c \in FacadeCalls |-> 0]
        /\ nm_reply = [c \in FacadeCalls |-> OneshotEmpty]
        /\ nm_ret = [c \in FacadeCalls |-> NoFacadeRet]

\* Names that no call has used and that are not bound are interchangeable: the
\* calls take them in order.
NameFirstUnused ==
    SetMax({0} \cup {nm_name[c] : c \in FacadeCalls}
               \cup {n \in FacadeNames : nm_store[n] # 0}) + 1

\* A facade call begins: Data::delete_index (or a creation, or a resolution)
\* enters the index controller, which first calls the uuid resolver's handle.
FacadeCall(c, op, n) ==
    /\ nm_pc[c] = "idle"
    /\ IF c = 1 THEN TRUE ELSE nm_pc[c - 1] # "idle"
    /\ n <= NameFirstUnused
    /\ channel_has_room(nm_mbox["resolver"], 0)
    /\ nm_mbox' = [nm_mbox EXCEPT !["resolver"] =
                     resolver_handle_send(TRUE, @, Msg(ResolverMessage(op), n, 0, 0, c))]
    /\ nm_reply' = [nm_reply EXCEPT ![c] = handler_reply_after_send(TRUE)]
    /\ nm_pc' = [nm_pc EXCEPT ![c] = "resolver"]
    /\ nm_op' = [nm_op EXCEPT ![c] = op]
    /\ nm_name' = [nm_name EXCEPT ![c] = n]
    /\ UNCHANGED <<nm_store, nm_next, nm_sub, nm_ret>>

\* UuidResolverHandleImpl::list (handler!, line 43): a List message, which
\* carries nothing but its reply channel, is sent to the resolver's mailbox and
\* the call awaits the reply.
HandleList(c) ==
    /\ nm_pc[c] = "idle"
    /\ IF c = 1 THEN TRUE ELSE nm_pc[c - 1] # "idle"
    /\ channel_has_room(nm_mbox["resolver"], 0)
    /\ nm_mbox' = [nm_mbox EXCEPT !["resolver"] =
                     resolver_handle_send(TRUE, @, Msg(ResolverMessage("list"), 0, 0, 0, c))]
    /\ nm_reply' = [nm_reply EXCEPT ![c] = handler_reply_after_send(TRUE)]
    /\ nm_pc' = [nm_pc EXCEPT ![c] = "resolver"]
    /\ nm_op' = [nm_op EXCEPT ![c] = "list"]
    /\ nm_name' = [nm_name EXCEPT ![c] = 0]
    /\ UNCHANGED <<nm_store, nm_next, nm_sub, nm_ret>>

\* UuidResolverHandleImpl::insert (handler!, line 44): an Insert message with
\* the name and the id chosen by the caller is sent to the resolver's mailbox
\* and the call awaits the reply.
HandleInsert(c, n, uuid) ==
    /\ nm_pc[c] = "idle"
    /\ IF c = 1 THEN TRUE ELSE nm_pc[c - 1] # "idle"
    /\ n <= NameFirstUnused
    /\ channel_has_room(nm_mbox["resolver"], 0)
    /\ nm_mbox' = [nm_mbox EXCEPT !["resolver"] =
                     resolver_handle_send(TRUE, @, Msg(ResolverMessage("insert"), n, uuid, 0, c))]
    /\ nm_reply' = [nm_reply EXCEPT ![c] = handler_reply_after_send(TRUE)]
    /\ nm_pc' = [nm_pc EXCEPT ![c] = "resolver"]
    /\ nm_op' = [nm_op EXCEPT ![c] = "insert"]
    /\ nm_name' = [nm_name EXCEPT ![c] = n]
    /\ UNCHANGED <<nm_store, nm_next, nm_sub, nm_ret>>

\* The uuid resolver's actor handles the message at the head of its mailbox:
\* Get replies the id bound to the name or NotFound; Create fails with
\* AlreadyExists on a bound name, else binds the name to a fresh id; Delete
\* fails with NotFound on an unbound name, else removes the binding and replies
\* the freed id; List replies the bindings. What the actor does with Insert is
\* written down nowhere: it either binds the name to the given id, whatever
\* held the name or the id before, or refuses and leaves the store alone.
NameResolverStep ==
    /\ nm_mbox["resolver"] # <<>>
    /\ LET m == Head(nm_mbox["resolver"])
           bound == nm_store[m.name] # 0
       IN CASE m.op = "Get" ->
                 /\ nm_reply' = [nm_reply EXCEPT ![m.ret] =
                                   IF bound THEN OneshotValue(TRUE, nm_store[m.name])
                                   ELSE OneshotValue(FALSE, 0)]
                 /\ UNCHANGED <<nm_store, nm_next, nm_ret>>
            [] m.op = "Create" ->
                 IF bound
                 THEN /\ nm_reply' = [nm_reply EXCEPT ![m.ret] = OneshotValue(FALSE, 0)]
                      /\ UNCHANGED <<nm_store, nm_next, nm_ret>>
                 ELSE /\ nm_store' = [nm_store EXCEPT ![m.name] = nm_next]
                      /\ nm_next' = nm_next + 1
                      /\ nm_reply' = [nm_reply EXCEPT ![m.ret] = OneshotValue(TRUE, nm_next)]
                      /\ UNCHANGED nm_ret
            [] m.op = "Delete" ->
                 IF bound
                 THEN /\ nm_store' = [nm_store EXCEPT ![m.name] = 0]
                      /\ nm_reply' = [nm_reply EXCEPT ![m.ret] =
                                        OneshotValue(TRUE, nm_store[m.name])]
                      /\ UNCHANGED <<nm_next, nm_ret>>
                 ELSE /\ nm_reply' = [nm_reply EXCEPT ![m.ret] = OneshotValue(FALSE, 0)]
                      /\ UNCHANGED <<nm_store, nm_next, nm_ret>>
            [] m.op = "List" ->
                 /\ nm_reply' = [nm_reply EXCEPT ![m.ret] =
                                   OneshotValue(TRUE, {<<n, nm_store[n]>> :
                                                         n \in {k \in FacadeNames : nm_store[k] # 0}})]
                 /\ UNCHANGED <<nm_store, nm_next, nm_ret>>
            [] m.op = "Insert" ->
                 \E binds \in BOOLEAN :
                    IF binds
                    THEN /\ nm_store' = [nm_store EXCEPT ![m.name] = m.uuid]
                         /\ nm_reply' = [nm_reply EXCEPT ![m.ret] = OneshotValue(TRUE, 0)]
                         /\ UNCHANGED <<nm_next, nm_ret>>
                    ELSE /\ nm_reply' = [nm_reply EXCEPT ![m.ret] = OneshotValue(FALSE, 0)]
                         /\ UNCHANGED <<nm_store, nm_next, nm_ret>>
    /\ nm_mbox' = [nm_mbox EXCEPT !["resolver"] = Tail(@)]
    /\ UNCHANGED <<nm_sub, nm_pc, nm_op, nm_name>>

\* The facade call returns `kind` with `id`.
facade_return(c, kind, id) ==
    /\ nm_pc' = [nm_pc EXCEPT ![c] = "returned"]
    /\ nm_ret' = [nm_ret EXCEPT ![c] = [@ EXCEPT !.kind = kind, !.id = id]]

\* The resolver's reply reaches the caller. A resolution, a list and an insert
\* return it; an error is returned through `?`; else the controller goes on to
\* the update actor's handle: create(uuid) after a creation, delete(uuid) after
\* a deletion.
FacadeResolved(c) ==
    /\ nm_pc[c] = "resolver"
    /\ LET r == handler_await(nm_reply[c])
           uuid == nm_reply[c].val
       IN CASE r = "Err" ->
                 /\ facade_return(c, "Err", 0)
                 /\ UNCHANGED <<nm_mbox, nm_reply>>
            [] r = "Ok" /\ nm_op[c] \in {"get", "list", "insert"} ->
                 /\ facade_return(c, "Ok", uuid)
                 /\ UNCHANGED <<nm_mbox, nm_reply>>
            [] r = "Ok" /\ nm_op[c] \in {"create", "delete_index"} ->
                 /\ channel_has_room(nm_mbox["update"], 0)
                 /\ nm_mbox' = [nm_mbox EXCEPT !["update"] =
                                  update_handle_send(TRUE, @,
                                      Msg(ResolverMessage(nm_op[c]), 0, uuid, 0, c))]
                 /\ nm_reply' = [nm_reply EXCEPT ![c] = handler_reply_after_send(TRUE)]
                 /\ nm_pc' = [nm_pc EXCEPT ![c] = "update"]
                 /\ nm_ret' = [nm_ret EXCEPT ![c] = [@ EXCEPT !.id = uuid]]
            [] OTHER -> FALSE
    /\ UNCHANGED <<nm_store, nm_next, nm_sub, nm_op, nm_name>>

\* The actor of a lower tier handles Create(uuid) or Delete(uuid): it
\* materializes or tears down the sub-store of the id, and replies.
LowerActorStep(t) ==
    /\ nm_mbox[t] # <<>>
    /\ LET m == Head(nm_mbox[t]) IN
       /\ nm_sub' = [nm_sub EXCEPT ![t] =
                       IF m.op = "Create" THEN @ \cup {m.uuid} ELSE @ \ {m.uuid}]
       /\ nm_reply' = [nm_reply EXCEPT ![m.ret] = OneshotValue(TRUE, m.uuid)]
    /\ nm_mbox' = [nm_mbox EXCEPT ![t] = Tail(@)]
    /\ UNCHANGED <<nm_store, nm_next, nm_pc, nm_op, nm_name, nm_ret>>

\* The update actor's reply reaches the index controller, which goes on to the
\* index actor's handle: create_index(uuid) or delete(uuid).
FacadeUpdated(c) ==
    /\ nm_pc[c] = "update"
    /\ handler_await(nm_reply[c]) = "Ok"
    /\ channel_has_room(nm_mbox["index"], 0)
    /\ nm_mbox' = [nm_mbox EXCEPT !["index"] =
                     index_handle_send(TRUE, @,
                         Msg(ResolverMessage(nm_op[c]), 0, nm_ret[c].id, 0, c))]
    /\ nm_reply' = [nm_reply EXCEPT ![c] = handler_reply_after_send(TRUE)]
    /\ nm_pc' = [nm_pc EXCEPT ![c] = "index"]
    /\ UNCHANGED <<nm_store, nm_next, nm_sub, nm_op, nm_name, nm_ret>>

\* Data::delete_index, lines 55-56: `self.index_controller.delete_index(index)
\* .await?; Ok(())`: the call returns once the controller's last handle call
\* has its reply.
delete_index_ready(c) ==
    nm_pc[c] = "index" /\ handler_await(nm_reply[c]) = "Ok"

\* The facade call returns Ok once the controller's last handle call has its
\* reply.
FacadeReturn(c) ==
    /\ nm_op[c] \in {"create", "delete_index"}
    /\ IF nm_op[c] = "delete_index"
       THEN delete_index_ready(c)
       ELSE nm_pc[c] = "index" /\ handler_await(nm_reply[c]) = "Ok"
    /\ facade_return(c, "Ok", nm_ret[c].id)
    /\ UNCHANGED <<nm_store, nm_next, nm_mbox, nm_sub, nm_op, nm_name, nm_reply>>

NameSpecInit ==
    NameInit /\ LoadIdle /\ SnapIdle /\ PipeIdle /\ MboxIdle /\ StartIdle /\ RouteIdle /\ CrashIdle

NameNext ==
    \/ (\E c \in FacadeCalls, op \in FacadeOps, n \in FacadeNames : FacadeCall(c, op, n))
          /\ UNCHANGED <<ldvars, snvars, ppvars, mqvars, stvars, rtvars, crvars>>
    \/ (\E c \in FacadeCalls : HandleList(c))
          /\ UNCHANGED <<ldvars, snvars, ppvars, mqvars, stvars, rtvars, crvars>>
    \/ (\E c \in FacadeCalls, n \in FacadeNames, uuid \in InsertIds : HandleInsert(c, n, uuid))
          /\ UNCHANGED <<ldvars, snvars, ppvars, mqvars, stvars, rtvars, crvars>>
    \/ NameResolverStep /\ UNCHANGED <<ldvars, snvars, ppvars, mqvars, stvars, rtvars, crvars>>
    \/ (\E c \in FacadeCalls : FacadeResolved(c))
          /\ UNCHANGED <<ldvars, snvars, ppvars, mqvars, stvars, rtvars, crvars>>
    \/ (\E t \in {"update", "index"} : LowerActorStep(t))
          /\ UNCHANGED <<ldvars, snvars, ppvars, mqvars, stvars, rtvars, crvars>>
    \/ (\E c \in FacadeCalls : FacadeUpdated(c))
          /\ UNCHANGED <<ldvars, snvars, ppvars, mqvars, stvars, rtvars, crvars>>
    \/ (\E c \in FacadeCalls : FacadeReturn(c))
          /\ UNCHANGED <<ldvars, snvars, ppvars, mqvars, stvars, rtvars, crvars>>

NameSpec == NameSpecInit /\ [][NameNext]_vars

(***************************************************************************)
(* CRASH AND RESTART OF THE PROCESS                                        *)
(***************************************************************************)
\* The job of index u that is Processing, or -1.
processing_job(u) ==
    IF \E j \in store[u] : j.state = "Processing"
    THEN (CHOOSE j \in store[u] : j.state = "Processing").id
    ELSE -1

\* The process dies, at any moment, and is started again. What is in memory is
\* lost: the
\* mailboxes, the reply channels, the callers' requests in flight and the position
\* of every processing loop. The update stores and the engine's indexes are on
\* disk and stay.
CrashRestart ==
    /\ cr_crashes < MaxCrashes
    /\ cr_crashes' = cr_crashes + 1
    /\ cr_inproc' = [u \in IndexIds |-> processing_job(u)]
    /\ cr_mark' = [u \in IndexIds |-> Len(applied[u])]
    /\ mbox' = [m \in Mailboxes |-> <<>>]
    /\ cl_pc' = [c \in Calls |->
                   IF cl_pc[c] \in {"resolving", "submitting"} THEN "aborted" ELSE cl_pc[c]]
    /\ cl_reply' = [c \in Calls |->
                      IF cl_pc[c] \in {"resolving", "submitting"}
                      THEN OneshotDropped ELSE cl_reply[c]]
    /\ lp_pc' = [u \in IndexIds |-> "idle"]
    /\ lp_job' = [u \in IndexIds |-> 0]
    /\ lp_reply' = [u \in IndexIds |-> OneshotEmpty]
    /\ UNCHANGED <<alive, rs_store, store, cl_name, cl_uuid, cl_ret, cl_dead, cl_sent,
                   lp_dead, applied>>

\* After a restart the processing loop of index u finds a job left in
\* Processing and executes it again: it hands the job to the index actor
\* through IndexActorHandle::update, before it dequeues anything else.
LoopResume(u) ==
    /\ lp_pc[u] = "idle"
    /\ processing_job(u) # -1
    /\ CanSend(IndexHandlerMailbox)
    /\ LET id == processing_job(u)
           open == alive["index"]
       IN /\ mbox' = [mbox EXCEPT ![IndexHandlerMailbox] =
                        index_handle_send(open, @, Msg("Update", 0, u, id, oneshot_channel(u)))]
          /\ lp_reply' = [lp_reply EXCEPT ![u] = handler_reply_after_send(open)]
          /\ lp_job' = [lp_job EXCEPT ![u] = id]
    /\ lp_pc' = [lp_pc EXCEPT ![u] = "awaiting"]
    /\ UNCHANGED <<alive, rs_store, store, cl_pc, cl_name, cl_uuid, cl_reply, cl_ret,
                   cl_dead, cl_sent, lp_dead, applied>>

\* The handles are built and the service holds one index, with an empty update
\* store; the other names are unbound.
CrashInit ==
    /\ alive = [t \in Tiers |-> TRUE]
    /\ mbox = [m \in Mailboxes |-> <<>>]
    /\ rs_store = [n \in Names |-> IF n = 1 THEN 1 ELSE 0]
    /\ store = [u \in IndexIds |-> {}]
    /\ cl_pc = [c \in Calls |-> "idle"]
    /\ cl_name = [c \in Calls |-> 0]
    /\ cl_uuid = [c \in Calls |-> 0]
    /\ cl_reply = [c \in Calls |-> OneshotEmpty]
    /\ cl_ret = [c \in Calls |-> NoRet]
    /\ cl_dead = [c \in Calls |-> "none"]
    /\ cl_sent = <<>>
    /\ lp_pc = [u \in IndexIds |-> "idle"]
    /\ lp_job = [u \in IndexIds |-> 0]
    /\ lp_reply = [u \in IndexIds |-> OneshotEmpty]
    /\ lp_dead = [u \in IndexIds |-> FALSE]
    /\ applied = [u \in IndexIds |-> <<>>]

CrashSpecInit ==
    CrashInit /\ LoadIdle /\ SnapIdle /\ MboxIdle /\ StartIdle /\ RouteIdle /\ NameIdle
             /\ CrashIdle

CrashNext ==
    \/ (\E c \in Calls, n \in Names : Submit(c, n)) /\ UNCHANGED <<ldvars, snvars, mqvars, xvars>>
    \/ ResolverActorStep /\ UNCHANGED <<ldvars, snvars, mqvars, xvars>>
    \/ (\E c \in Calls : CallResolved(c)) /\ UNCHANGED <<ldvars, snvars, mqvars, xvars>>
    \/ UpdateActorStep /\ UNCHANGED <<ldvars, snvars, mqvars, xvars>>
    \/ (\E c \in Calls : CallReturn(c)) /\ UNCHANGED <<ldvars, snvars, mqvars, xvars>>
    \/ (\E u \in IndexIds : LoopStart(u)) /\ UNCHANGED <<ldvars, snvars, mqvars, xvars>>
    \/ IndexActorStep /\ UNCHANGED <<ldvars, snvars, mqvars, xvars>>
    \/ (\E u \in IndexIds : LoopFinish(u)) /\ UNCHANGED <<ldvars, snvars, mqvars, xvars>>
    \/ (\E u \in IndexIds : LoopResume(u)) /\ UNCHANGED <<ldvars, snvars, mqvars, xvars>>
    \/ CrashRestart /\ UNCHANGED <<ldvars, snvars, mqvars, stvars, rtvars, nmvars>>

\* The pipeline with crashes of the process, under fair scheduling; a crash is
\* under no obligation to happen.
CrashSpec ==
    /\ CrashSpecInit
    /\ [][CrashNext]_vars
    /\ PipeFairness
    /\ \A u \in IndexIds : WF_vars(LoopResume(u) /\ UNCHANGED <<ldvars, snvars, mqvars, xvars>>)

(***************************************************************************)
(* PROPERTIES OF THE LOAD PATH (LoadSpec)                                  *)
(***************************************************************************)
\* The outcome the decision table gives for a call: "extract" when the
\* extraction is attempted, else the value returned.
LoadTable(db_exists, snap_exists, ign_db, ign_missing) ==
    CASE ~db_exists /\ snap_exists -> "extract"
      [] db_exists /\ ~ign_db -> "ErrDatabaseAlreadyExists"
      [] db_exists /\ ign_db /\ ~snap_exists /\ ~ign_missing -> "ErrSnapshotMissing"
      [] ~db_exists /\ ~snap_exists /\ ~ign_missing -> "ErrSnapshotMissing"
      [] OTHER -> "Ok"

LoadOutcome == IF ld_last.extract THEN "extract" ELSE ld_last.res

\* C6: for every combination of (db_path exists, snapshot_path exists,
\* ignore_snapshot_if_db_exists, ignore_missing_snapshot) the outcome of
\* load_snapshot is the one of the table: db missing and snapshot present ->
\* extract; else db present and not ignore_snapshot_if_db_exists ->
\* DatabaseAlreadyExists; else snapshot missing and not ignore_missing_snapshot
\* -> SnapshotMissing; otherwise Ok, and db_path is left as it was whenever
\* nothing is extracted.
C6_LoadTable ==
    ld_last.called =>
        /\ LoadOutcome = LoadTable(exists(ld_last.db), exists(ld_last.snap),
                                   ld_last.ign_db, ld_last.ign_missing)
        /\ (LoadOutcome # "extract" => ld_db = ld_last.db)

\* C6 witness: the database exists and is to be ignored, the snapshot is missing
\* and is not to be ignored: the call fails with SnapshotMissing.
C6_Witness ==
    /\ ld_last.called
    /\ exists(ld_last.db) /\ ld_last.ign_db
    /\ ~exists(ld_last.snap) /\ ~ld_last.ign_missing
    /\ ld_last.res = "ErrSnapshotMissing"

\* C7: when load_snapshot is called with db_path missing and snapshot_path
\* present and the extraction fails, it returns the extraction error and
\* db_path does not exist afterwards.
C7_ExtractionErrorSurfaced ==
    (ld_last.called /\ ld_last.extract /\ ld_last.outcome # "ok") =>
        (ld_last.res = "ErrExtract" /\ ~exists(ld_db))

(***************************************************************************)
(* PROPERTIES OF THE SNAPSHOT SERVICE (SnapSpec)                           *)
(***************************************************************************)
\* C1: in a run of perform_snapshot in which the resolver's snapshot or an
\* update store's snapshot failed, perform_snapshot returns an error and
\* <db_name>.snapshot is what it was when the run started (absent if it was
\* absent).
C1_FailedRunLeavesFinalFile ==
    (sn_hist.resolver_failed \/ sn_hist.update_failed) =>
        /\ sn_pc \in {"returned", "sleep", "perform"}
        /\ sn_result = "Err"
        /\ sn_final = sn_hist.final0

\* C1 witness: a run over two ids has returned after one update store's
\* snapshot succeeded and the other failed, and there is no final file.
C1_Witness ==
    /\ sn_pc = "returned"
    /\ sn_hist.update_failed
    /\ \E u \in sn_uuids : sn_tasks[u] = "ok"
    /\ ~sn_final.exists

\* C8: after perform_snapshot returns an error the run loop goes to sleep and
\* from there starts another attempt, whatever the number of failures so far;
\* in neither place is the loop stuck.
C8_FailureNeverEndsLoop ==
    /\ [](sn_pc = "returned" => ENABLED run_after_perform)
    /\ [](sn_pc = "sleep" => ENABLED run_wake)
    /\ [][/\ (sn_pc = "returned" /\ sn_result = "Err") => sn_pc' = "sleep"
          /\ sn_pc = "sleep" => sn_pc' = "perform"]_sn_pc

\* C8 witness: a new attempt is under way after MaxFails consecutive failed
\* attempts.
C8_Witness ==
    /\ sn_pc = "resolver"
    /\ sn_hist.fails = MaxFails

(***************************************************************************)
(* PROPERTIES OF THE UPDATE PIPELINE (PipeSpec, PipeFairSpec)              *)
(***************************************************************************)
\* The calls whose Update message for index u was sent, in sending order: the
\* submission order of the index.
SubmissionOrder(u) ==
    LET OnU(c) == cl_uuid[c] = u IN SelectSeq(cl_sent, OnU)

\* The position of call c in the order of sending.
SentPos(c) == CHOOSE i \in 1..Len(cl_sent) : cl_sent[i] = c

\* The call that submitted the job with update_id `id` of index u.
CallOfJob(u, id) == (CHOOSE j \in store[u] : j.id = id).call

IsPrefix(p, q) ==
    /\ Len(p) <= Len(q)
    /\ \A i \in 1..Len(p) : p[i] = q[i]

\* C2: for every index the jobs applied by the index actor are, in order, a
\* prefix of the index's submission order; a job is handed to the index actor
\* only when every job with a lower update_id is terminal, the job handed is
\* the one recorded as Processing, and a job is terminal only after it was
\* applied.
C2_AppliedInSubmissionOrder ==
    \A u \in IndexIds :
        /\ \A i \in 1..Len(applied[u]) : \E j \in store[u] : j.id = applied[u][i]
        /\ IsPrefix([i \in 1..Len(applied[u]) |-> CallOfJob(u, applied[u][i])],
                    SubmissionOrder(u))
        /\ \A j \in store[u], k \in store[u] :
             (j.id < k.id /\ k.state # "Enqueued") => Terminal(j.state)
        /\ \A m \in MsgsIn("index_read") \cup MsgsIn("index_write") :
             m.uuid = u =>
               /\ \E k \in store[u] : k.id = m.id /\ k.state = "Processing"
               /\ \A j \in store[u] : j.id < m.id => Terminal(j.state)
        /\ \A j \in store[u] :
             Terminal(j.state) => \E i \in 1..Len(applied[u]) : applied[u][i] = j.id

\* C2 witness: two jobs of one index have been applied, the second one handed
\* over after the first.
C2_Witness ==
    \E u \in IndexIds : Len(applied[u]) >= 2 /\ Len(SubmissionOrder(u)) >= 2

\* C3: a submission returns the enqueued status of the job it recorded, and it
\* can return as soon as the update actor has replied, whatever the index
\* actor and the processing loop have done or not done.
C3_SubmissionReturnsEnqueued ==
    \A c \in Calls :
        /\ (cl_pc[c] = "returned" /\ cl_ret[c].kind = "Ok") =>
              /\ cl_ret[c].status = "Enqueued"
              /\ \E j \in JobOf(c) : j.id = cl_ret[c].id
        /\ (cl_pc[c] = "submitting" /\ cl_reply[c].state = "value") =>
              ENABLED CallReturn(c)

\* C3 witness: a submission has returned the enqueued status while its job is
\* still Enqueued, nothing was applied and the index actor is gone: the job
\* will never be processed.
C3_Witness ==
    \E c \in Calls :
        /\ cl_pc[c] = "returned" /\ cl_ret[c].status = "Enqueued"
        /\ \E j \in JobOf(c) : j.state = "Enqueued"
        /\ ~alive["index"]
        /\ \A u \in IndexIds : applied[u] = <<>>

\* C4: within one index the update_ids of the recorded jobs are pairwise
\* distinct and contiguous from 0, and they increase in submission order.
C4_UpdateIdsContiguous ==
    \A u \in IndexIds :
        LET ids == {j.id : j \in store[u]} IN
        /\ Cardinality(ids) = Cardinality(store[u])
        /\ ids = 0..(Cardinality(store[u]) - 1)
        /\ \A j \in store[u], k \in store[u] :
             SentPos(j.call) < SentPos(k.call) => j.id < k.id

\* C4 witness: an index holds at least two recorded jobs.
C4_Witness ==
    \E u \in IndexIds : Cardinality(store[u]) >= 2

JobStates == {"Enqueued", "Processing", "Processed", "Failed"}

JobRecorded(u, id) == \E j \in store[u] : j.id = id
JobTerminal(u, id) == \E j \in store[u] : j.id = id /\ Terminal(j.state)

\* C5: without a crash and under fair scheduling every recorded job is
\* eventually Processed or Failed, and until then it is Enqueued or Processing.
C5_EveryJobTerminates ==
    /\ [](\A u \in IndexIds : \A j \in store[u] : j.state \in JobStates)
    /\ \A u \in IndexIds : \A id \in 0..(MaxCalls - 1) :
         JobRecorded(u, id) ~> JobTerminal(u, id)

\* C5 witness: one index holds a Processed job and a Failed job.
C5_Witness ==
    \E u \in IndexIds :
        /\ \E j \in store[u] : j.state = "Processed"
        /\ \E j \in store[u] : j.state = "Failed"

\* C9 as stated: a call through the handle of a tier whose actor has terminated
\* does not panic, and what it returns is an error value.
C9_DeadActorIsErrorValue ==
    /\ \A c \in Calls :
         cl_dead[c] # "none" =>
           /\ cl_pc[c] # "panicked"
           /\ cl_pc[c] = "returned" => cl_ret[c].kind = "Err"
    /\ \A u \in IndexIds : lp_dead[u] => lp_pc[u] # "panicked"

\* C9 amended: a call through the handle of a tier whose actor has terminated
\* never returns a value: its send fails, the failure is discarded, and the
\* call panics when it awaits the reply, which it can do at once (it does not
\* block).
C9_DeadActorPanics ==
    /\ \A c \in Calls :
         cl_dead[c] # "none" =>
           /\ cl_pc[c] \in {"resolving", "submitting", "panicked"}
           /\ cl_ret[c].kind = "none"
           /\ cl_pc[c] = "resolving" =>
                (cl_reply[c].state = "dropped" /\ ENABLED CallResolved(c))
           /\ cl_pc[c] = "submitting" =>
                (cl_reply[c].state = "dropped" /\ ENABLED CallReturn(c))
    /\ \A u \in IndexIds :
         lp_dead[u] =>
           /\ lp_pc[u] \in {"awaiting", "panicked"}
           /\ lp_pc[u] = "awaiting" =>
                (lp_reply[u].state = "dropped" /\ ENABLED LoopFinish(u))

\* C9 witness: a submission has panicked on a dead tier and a processing loop
\* has panicked on the dead index actor.
C9_Witness ==
    /\ \E c \in Calls : cl_dead[c] # "none" /\ cl_pc[c] = "panicked"
    /\ \E u \in IndexIds : lp_dead[u] /\ lp_pc[u] = "panicked"

(***************************************************************************)
(* PROPERTIES OF A MAILBOX UNDER LOAD (MboxSpec)                           *)
(***************************************************************************)
\* How many times message k occurs in a sequence of messages or of ids.
CountIn(seq, k) == Cardinality({i \in 1..Len(seq) : seq[i] = k})

QueuedIds == [i \in 1..Len(mbox[mq_mb]) |-> mbox[mq_mb][i].id]

Received(k) == \E i \in 1..Len(mq_received) : mq_received[i] = k

\* Every message of a call begun so far has been received.
AllReceived == \A k \in 1..mq_next : Received(k)

\* C10: a mailbox never holds more than 100 messages, the slots given to
\* waiting sends included; a send begun on a full mailbox waits, a send waits
\* only when every slot is taken by a message or given to an earlier waiting
\* send, slots go to the waiting sends oldest first, and a send leaves the wait
\* only into the slot it was given; every message of a call begun is in exactly
\* one place (waiting to be sent, in the mailbox, or received) and there
\* exactly once; and every message is eventually received by the actor:
\* whenever some message of a call begun is not yet received, a moment follows
\* at which all of them are.
C10_MailboxBoundedNoLoss ==
    /\ [](\A mb \in Mailboxes : Len(mbox[mb]) <= 100)
    /\ [](mq_permit \subseteq mq_waiting /\ Len(mbox[mq_mb]) + Cardinality(mq_permit) <= 100)
    /\ [][/\ \A k \in mq_waiting' \ mq_waiting :
               Len(mbox[mq_mb]) + Cardinality(mq_permit) = 100
          /\ (mq_next' # mq_next /\ Len(mbox[mq_mb]) = 100) => mq_next' \in mq_waiting'
          /\ \A k \in mq_permit' \ mq_permit :
               /\ Len(mbox'[mq_mb]) = Len(mbox[mq_mb]) - 1
               /\ \A j \in mq_waiting \ mq_permit : k <= j
          /\ \A k \in mq_waiting \ mq_waiting' :
               /\ k \in mq_permit
               /\ Len(mbox[mq_mb]) < 100 /\ Len(mbox'[mq_mb]) = Len(mbox[mq_mb]) + 1]_vars
    /\ [](\A k \in 1..mq_next :
            (IF k \in mq_waiting THEN 1 ELSE 0) + CountIn(QueuedIds, k)
              + CountIn(mq_received, k) = 1)
    /\ (~AllReceived) ~> AllReceived

\* C10 witness: the mailbox is full, a send waits for a slot, and the actor
\* has received messages already.
C10_Witness ==
    /\ Len(mbox[mq_mb]) = MailboxCapacity
    /\ mq_waiting # {}
    /\ Len(mq_received) >= 1

(***************************************************************************)
(* PROPERTIES OF THE START OF THE PROCESS (StartSpec)                      *)
(***************************************************************************)
\* C11: in production without a master key main returns the master-key error
\* with neither the Data built nor the listener bound in that start; this error
\* is returned in no other configuration, and in development main goes on to
\* Data::new whether a master key is set or not.
C11_ProductionNeedsMasterKey ==
    /\ (st_opt.env = "production" /\ ~st_opt.master_key /\ st_pc \notin {"off", "main"}) =>
          /\ st_pc = "exited"
          /\ st_result = "ErrMasterKey"
          /\ ~st_data
          /\ ~st_bound
    /\ st_result = "ErrMasterKey" => (st_opt.env = "production" /\ ~st_opt.master_key)
    /\ (st_opt.env = "development" /\ st_pc = "exited" /\ ~st_data) => st_result = "ErrData"
    /\ st_bound => st_data

\* C11 witness: a start in production without a master key has returned the
\* error, after an earlier start of the process.
C11_Witness ==
    /\ st_opt.env = "production" /\ ~st_opt.master_key
    /\ st_pc = "exited" /\ st_result = "ErrMasterKey"
    /\ st_starts = 2

(***************************************************************************)
(* PROPERTIES OF THE STATS ROUTES (PipeSpec)                               *)
(***************************************************************************)
\* C12: a stats request is answered, and the answer reports for every index
\* isIndexing = true exactly when the index has a job that is Enqueued or
\* Processing (false for a fresh index and once the jobs are terminal).
C12_StatsReportIndexing ==
    rt_stats.kind # "none" =>
        /\ rt_stats.kind = "Ok"
        /\ DOMAIN rt_stats.is_indexing = Names
        /\ \A n \in Names : rt_stats.is_indexing[n] = rt_stats.had_pending[n]

(***************************************************************************)
(* PROPERTIES OF CRASH RECOVERY (CrashSpec)                                *)
(***************************************************************************)
\* Some job that was Processing at the last crash is not terminal yet.
InterruptedJobPending ==
    \E u \in IndexIds : cr_inproc[u] # -1 /\ ~JobTerminal(u, cr_inproc[u])

\* C15: a job that was Processing when the process crashed is executed again
\* after the restart (when it is terminal, the index actor has applied it
\* after the crash) and it reaches a terminal state once the crashes stop
\* (whenever such a job is not terminal, a moment follows at which every such
\* job is); no
\* recorded job is ever lost; and no job is handed to the index actor while a
\* job with a lower update_id of the same index is not terminal.
C15_ProcessingJobReexecuted ==
    /\ [][\A u \in IndexIds : {j.id : j \in store[u]} \subseteq {j.id : j \in store'[u]}]_vars
    /\ [](\A u \in IndexIds :
            \A m \in MsgsIn("index_read") \cup MsgsIn("index_write") :
              m.uuid = u => \A j \in store[u] : j.id < m.id => Terminal(j.state))
    /\ [](\A u \in IndexIds :
            (cr_inproc[u] # -1 /\ JobTerminal(u, cr_inproc[u])) =>
              \E i \in (cr_mark[u] + 1)..Len(applied[u]) : applied[u][i] = cr_inproc[u])
    /\ InterruptedJobPending ~> ~InterruptedJobPending

\* C15 witness: the process crashed while a job was Processing and a later job
\* of the index was Enqueued; the first job is terminal now, applied after the
\* crash, and the later job is still not terminal.
C15_Witness ==
    \E u \in IndexIds :
        /\ cr_crashes >= 1
        /\ cr_inproc[u] # -1
        /\ JobTerminal(u, cr_inproc[u])
        /\ \E j \in store[u] : j.id > cr_inproc[u] /\ ~Terminal(j.state)

(***************************************************************************)
(* PROPERTIES OF THE STEPS OF A SNAPSHOT RUN (SnapSpec)                    *)
(***************************************************************************)
\* The places of perform_snapshot at which the archive is being built.
ArchiveSteps == {"archive_new", "archive_tar", "archive_persist", "archive_done",
                 "archive_failed"}

\* C16: the steps of a run happen in order. An update store's snapshot is
\* started only after the resolver's snapshot has succeeded and left its dump
\* in the temporary directory; the archive is built only after the update
\* store's snapshot has succeeded for every returned id; the rename happens
\* only after the archive holds the whole temporary directory; and
\* <db_name>.snapshot changes by that rename alone, so that it always is a
\* complete archive of a run all of whose steps succeeded.
C16_FinalFileOnlyByRename ==
    /\ []((\E u \in Uuids : sn_tasks[u] # "none") => sn_hist.resolver_ok)
    /\ [](sn_pc \in {"polling", "join"} \cup ArchiveSteps =>
            sn_hist.resolver_ok /\ sn_tmpdir.resolver)
    /\ [](sn_pc \in ArchiveSteps =>
            /\ \A u \in sn_uuids : sn_tasks[u] = "ok"
            /\ sn_tmpdir.updates = sn_uuids)
    /\ [](sn_pc = "archive_persist" => sn_tmpfile = sn_tmpdir)
    /\ [](sn_final.exists => sn_final.resolver /\ sn_final.updates # {})
    /\ [][sn_final' # sn_final =>
            /\ sn_pc = "archive_persist"
            /\ sn_final' = sn_tmpfile
            /\ sn_tmpfile.resolver
            /\ sn_tmpfile.updates = sn_uuids
            /\ sn_uuids # {}]_vars

\* C16 witness: a run over two ids has returned Ok and its archive, holding the
\* resolver's dump and both update stores, has replaced the final file.
C16_Witness ==
    /\ sn_pc = "returned"
    /\ sn_result = "Ok"
    /\ Cardinality(sn_uuids) >= 2
    /\ sn_final # sn_hist.final0
    /\ sn_final = [exists |-> TRUE, resolver |-> TRUE, updates |-> sn_uuids]

\* The calls of update_handle.snapshot made in the run, in order.
UpdateCalls == SelectSeq(sn_hist.calls, LAMBDA c : c.tier = "update")

\* The number of calls of update_handle.snapshot made in the run for id u.
CallsFor(u) == Cardinality({i \in 1..Len(UpdateCalls) : UpdateCalls[i].uuid = u})

\* C17: in a run, update_handle.snapshot is called exactly once for each id
\* the resolver's snapshot returned, for no other id, and always with the
\* temporary directory of the run. The calls are fixed when the resolver's
\* reply is handled: an index created after that is not snapshotted in the
\* run.
C17_OneUpdateSnapshotPerReturnedId ==
    /\ [](\A i \in 1..Len(UpdateCalls) :
            /\ UpdateCalls[i].uuid \in sn_uuids
            /\ UpdateCalls[i].path = temp_snapshot_path)
    /\ []((sn_hist.resolver_ok /\ sn_uuids # {}) =>
            \A u \in Uuids : CallsFor(u) = IF u \in sn_uuids THEN 1 ELSE 0)
    /\ [](sn_hist.polled <= Len(sn_hist.calls))
    /\ [](\A u \in Uuids : sn_tasks[u] # "none" => u \in sn_uuids)
    /\ [][(sn_hist.calls' # sn_hist.calls \/ sn_uuids' # sn_uuids) =>
            sn_pc \in {"perform", "resolver"}]_vars

\* C17 witness: the snapshot of the returned id is awaited, called once, while
\* an index created after the resolver's reply is live and has no call.
C17_Witness ==
    /\ sn_pc = "join"
    /\ sn_uuids # {}
    /\ \A u \in sn_uuids : CallsFor(u) = 1
    /\ \E u \in sn_live \ sn_uuids : sn_tasks[u] = "none" /\ CallsFor(u) = 0

\* C18 as stated: when the archive of a run is built, both the update store's
\* snapshot and the index actor's snapshot have been called from
\* perform_snapshot for every returned id.
C18_BothSnapshotsInvokedByService ==
    sn_pc \in ArchiveSteps =>
        \A u \in sn_uuids :
            /\ \E i \in 1..Len(sn_hist.calls) :
                 sn_hist.calls[i].tier = "update" /\ sn_hist.calls[i].uuid = u
            /\ \E i \in 1..Len(sn_hist.calls) :
                 sn_hist.calls[i].tier = "index" /\ sn_hist.calls[i].uuid = u

\* C18 amended: the only calls perform_snapshot makes for the returned ids are
\* calls of update_handle.snapshot (the service holds no index handle), and
\* the archive is built only when that call has returned Ok for every returned
\* id.
C18_OnlyUpdateSnapshotInvokedByService ==
    /\ \A i \in 1..Len(sn_hist.calls) : sn_hist.calls[i].tier = "update"
    /\ sn_pc \in ArchiveSteps =>
         \A u \in sn_uuids :
            /\ \E i \in 1..Len(sn_hist.calls) : sn_hist.calls[i].uuid = u
            /\ sn_tasks[u] = "ok"

\* C18 witness: the archive of a run over two ids is being written, after two
\* calls, both of the update store's snapshot.
C18_Witness ==
    /\ sn_pc = "archive_tar"
    /\ Cardinality(sn_uuids) >= 2
    /\ Len(sn_hist.calls) = 2
    /\ \A u \in sn_uuids : sn_tasks[u] = "ok"

(***************************************************************************)
(* PROPERTIES OF THE INDEX ACTOR'S MAILBOXES (PipeSpec)                    *)
(***************************************************************************)
\* The messages of the index handle that change an index, and those that only
\* read it.
IndexWriteOps == {"Update", "CreateIndex", "Delete", "UpdateIndex", "Snapshot"}
IndexReadOps == {"Search", "Settings", "Documents", "Document", "GetMeta"}

\* C19: a message of a write operation of the index handle is only ever in
\* the write mailbox and a message of a read operation only ever in the read
\* mailbox.
C19_WritesThroughWriteMailbox ==
    /\ \A m \in MsgsIn("index_read") : m.op \notin IndexWriteOps
    /\ \A m \in MsgsIn("index_write") : m.op \notin IndexReadOps

\* The resolver's snapshot of the run returned Ok with no id.
EmptyRun == sn_hist.resolver_ok /\ sn_uuids = {}

\* C20: when the resolver's snapshot returns no id, perform_snapshot returns
\* Ok at once: update_handle.snapshot is not called, <db_name>.snapshot is
\* neither created nor replaced, and the run loop goes to sleep for the next
\* period.
C20_EmptyIdSetEndsRunOk ==
    /\ [](EmptyRun =>
            /\ sn_pc \in {"returned", "sleep", "perform"}
            /\ sn_result = "Ok"
            /\ sn_hist.calls = <<>>
            /\ \A u \in Uuids : sn_tasks[u] = "none"
            /\ sn_final = sn_hist.final0)
    /\ []((EmptyRun /\ sn_pc = "returned") => ENABLED run_after_perform)
    /\ [][(EmptyRun /\ sn_pc = "returned") => sn_pc' = "sleep"]_sn_pc

\* C20 witness: the loop sleeps after a run in which the resolver returned no
\* id, with the archive of an earlier run still in place.
C20_Witness ==
    /\ sn_pc = "sleep"
    /\ EmptyRun
    /\ sn_result = "Ok"
    /\ sn_final.exists
    /\ sn_final = sn_hist.final0

(***************************************************************************)
(* PROPERTIES OF THE RUN LOOP OF THE SNAPSHOT SERVICE (SnapSpec)           *)
(***************************************************************************)
\* C21: whenever the resolver's snapshot is being called, a sleep of
\* snapshot_period has elapsed since run started and since the attempt
\* before, if there was one.
C21_WaitBeforeEveryAttempt ==
    sn_pc = "resolver" => sn_hist.wait = "elapsed"

\* The places of the run task inside perform_snapshot after its first step.
InRun == {"tempdir_in", "send_snapshot", "resolver", "polling", "join"} \cup ArchiveSteps

\* C22: there is one snapshot run at a time. A run begins only from the top of
\* the loop, which is reached only from a finished sleep, which is begun only
\* after perform_snapshot has returned; a run that has begun ends only by
\* returning (or by a panic), so a run that waits for ever for a reply keeps
\* every later run from starting. Meanwhile other callers of the resolver and
\* of the update handle can still send their calls and have them served.
C22_OneRunAtATime ==
    /\ [](sn_pc \in InRun \cup {"perform"} => sn_hist.wait # "sleeping")
    /\ [][/\ sn_pc \in InRun => sn_pc' \in InRun \cup {"returned", "panicked"}
          /\ sn_pc' = "resolver" => sn_pc = "send_snapshot"
          /\ sn_pc' = "send_snapshot" => sn_pc = "tempdir_in"
          /\ sn_pc' = "tempdir_in" => sn_pc = "perform"
          /\ sn_pc' = "perform" => sn_pc = "sleep"
          /\ sn_pc' = "sleep" => sn_pc = "returned"]_sn_pc
    /\ [](sn_pc \in {"resolver", "join"} => ~ENABLED PerformBegin /\ ~ENABLED run_wake)
    /\ [](sn_pc \in InRun =>
            /\ \A u \in Uuids \ sn_live : ENABLED ResolverCreate(u)
            /\ \A u \in sn_live : ENABLED ResolverDelete(u)
            /\ \A t \in SnapshotTiers \ sn_other : ENABLED OtherCallerSend(t)
            /\ \A t \in sn_other : ENABLED OtherCallerReply(t))

\* C22 witness: the second run of the loop awaits the update stores' snapshots
\* while a call of another caller is in flight on each of the two handles.
C22_Witness ==
    /\ sn_pc = "join"
    /\ sn_hist.wait = "elapsed"
    /\ sn_other = SnapshotTiers
    /\ \E u \in sn_uuids : sn_tasks[u] = "pending"

\* The temp file of the run holds the whole archive and its rename has failed:
\* perform_snapshot returned an error although every step before succeeded.
RenameFailed ==
    /\ sn_result = "Err"
    /\ sn_uuids # {}
    /\ \A u \in sn_uuids : sn_tasks[u] = "ok"
    /\ sn_tmpfile = [exists |-> TRUE, resolver |-> TRUE, updates |-> sn_uuids]

\* C23 as stated: once perform_snapshot has returned, neither the temporary
\* directory nor a temporary archive file of the run exists in the snapshot
\* root.
C23_NoTempArtefactAfterReturn ==
    sn_pc \in {"returned", "sleep"} =>
        sn_tmpdir = NoFile /\ sn_tmpfile = NoFile /\ sn_left = {}

\* C23 amended: once perform_snapshot has returned, the run has dropped its
\* temporary directory, and its temporary archive file as well unless the
\* rename failed: then the file lives on inside the returned error until run
\* has logged and dropped it, which is before the loop sleeps. A drop removes
\* its directory or file from the snapshot root unless the removal itself
\* fails, which is ignored: a directory or file stays in the root only where
\* an existing one was dropped.
C23_TempArtefactsGoneUnlessRenameFailed ==
    /\ [](sn_pc \in {"returned", "sleep", "perform"} => sn_tmpdir = NoFile)
    /\ []((sn_pc = "returned" /\ sn_tmpfile # NoFile) => RenameFailed)
    /\ [](sn_pc \in {"sleep", "perform"} => sn_tmpfile = NoFile)
    /\ [][/\ sn_left \subseteq sn_left'
          /\ "dir" \in sn_left' \ sn_left =>
                sn_tmpdir.exists /\ sn_tmpdir' = NoFile /\ sn_pc' \in {"returned", "panicked"}
          /\ "file" \in sn_left' \ sn_left =>
                sn_tmpfile.exists /\ sn_tmpfile' = NoFile
                /\ sn_pc' \in {"archive_failed", "returned", "panicked", "sleep"}]_vars

\* C23 witness: perform_snapshot has returned the error of a failed rename;
\* the run has dropped its temporary directory, whose removal failed, and the
\* temporary archive file is still held by the error.
C23_Witness ==
    /\ sn_pc = "returned"
    /\ RenameFailed
    /\ sn_tmpdir = NoFile
    /\ sn_left = {"dir"}
    /\ sn_final = sn_hist.final0

(***************************************************************************)
(* PROPERTIES OF THE LOAD PATH: AN EXISTING DATABASE (LoadSpec)            *)
(***************************************************************************)
\* C24: a call of load_snapshot made when db_path exists leaves the tree at
\* db_path as it was, whatever the snapshot file and the two flags are and
\* whatever the call returns; no step ever changes a tree that exists.
C24_ExistingDbUntouched ==
    /\ []((ld_last.called /\ exists(ld_last.db)) =>
            /\ ld_db = ld_last.db
            /\ ~ld_last.extract
            /\ ld_last.res \in {"Ok", "ErrDatabaseAlreadyExists", "ErrSnapshotMissing"})
    /\ [][exists(ld_db) => ld_db' = ld_db]_vars

\* C24 witness: load_snapshot was called on an existing database with a
\* snapshot file present and ignore_snapshot_if_db_exists set; it returned Ok
\* and the database is the one found.
C24_Witness ==
    /\ ld_last.called
    /\ ld_last.db = "db0"
    /\ exists(ld_last.snap)
    /\ ld_last.ign_db
    /\ ld_last.res = "Ok"
    /\ ld_db = "db0"

(***************************************************************************)
(* PROPERTIES OF THE REPLY CHANNELS (PipeSpec)                             *)
(***************************************************************************)
\* The messages of mailbox mb that carry the reply channel r.
WithRet(mb, r) == {i \in 1..Len(mbox[mb]) : mbox[mb][i].ret = r}

\* The messages in the index actor's two mailboxes that carry channel r.
IndexWithRet(r) ==
    Cardinality(WithRet("index_read", r)) + Cardinality(WithRet("index_write", r))

\* C25: a call through a handle puts one message with a reply channel of its
\* own into the mailbox, and what the call gets from its channel is the reply
\* to that message: the resolver's answer for the name the call asked for, the
\* update actor's job recorded for this call on the call's index, the index
\* actor's result for the job the loop handed over. Mailboxes are queues:
\* messages are taken from the front and added at the back, so they are
\* received in the order of sending.
C25_ReplyAnswersOwnMessage ==
    /\ [](\A mb \in Mailboxes : \A i, j \in 1..Len(mbox[mb]) :
            i # j => mbox[mb][i].ret # mbox[mb][j].ret)
    /\ [](\A c \in Calls :
            /\ (cl_pc[c] = "resolving" /\ cl_reply[c].state = "empty") =>
                 /\ Cardinality(WithRet("resolver", c)) = 1
                 /\ WithRet("update", c) = {}
                 /\ \A i \in WithRet("resolver", c) :
                      mbox["resolver"][i].name = cl_name[c]
            /\ (cl_pc[c] = "resolving" /\ cl_reply[c].state = "value") =>
                 /\ WithRet("resolver", c) = {}
                 /\ cl_reply[c] = IF rs_store[cl_name[c]] # 0
                                  THEN OneshotValue(TRUE, rs_store[cl_name[c]])
                                  ELSE OneshotValue(FALSE, 0)
            /\ (cl_pc[c] = "submitting" /\ cl_reply[c].state = "empty") =>
                 /\ Cardinality(WithRet("update", c)) = 1
                 /\ WithRet("resolver", c) = {}
                 /\ \A i \in WithRet("update", c) :
                      mbox["update"][i].uuid = cl_uuid[c]
            /\ (cl_pc[c] = "submitting" /\ cl_reply[c].state = "value") =>
                 /\ WithRet("update", c) = {}
                 /\ cl_reply[c].ok
                 /\ \E j \in store[cl_uuid[c]] :
                      j.id = cl_reply[c].val /\ j.call = c)
    /\ [](\A u \in IndexIds :
            /\ (lp_pc[u] = "awaiting" /\ lp_reply[u].state = "empty") =>
                 /\ IndexWithRet(u) = 1
                 /\ \A mb \in {"index_read", "index_write"} : \A i \in WithRet(mb, u) :
                      mbox[mb][i].uuid = u /\ mbox[mb][i].id = lp_job[u]
            /\ (lp_pc[u] = "awaiting" /\ lp_reply[u].state = "value") =>
                 /\ IndexWithRet(u) = 0
                 /\ lp_reply[u].val = lp_job[u])
    /\ [](\A i, j \in 1..Len(mbox["update"]) :
            i < j => SentPos(mbox["update"][i].ret) < SentPos(mbox["update"][j].ret))
    /\ [][\A mb \in Mailboxes :
            \/ mbox'[mb] = mbox[mb]
            \/ mbox'[mb] = <<>>
            \/ mbox[mb] # <<>> /\ mbox'[mb] = Tail(mbox[mb])
            \/ Len(mbox'[mb]) = Len(mbox[mb]) + 1
                 /\ mbox[mb] = SubSeq(mbox'[mb], 1, Len(mbox[mb]))]_vars

\* C25 witness: two calls asked the resolver for different names at the same
\* time and each holds the reply for its own name.
C25_Witness ==
    \E c, d \in Calls :
        /\ cl_pc[c] = "resolving" /\ cl_pc[d] = "resolving"
        /\ cl_name[c] # cl_name[d]
        /\ cl_reply[c] = OneshotValue(TRUE, rs_store[cl_name[c]])
        /\ cl_reply[d] = OneshotValue(TRUE, rs_store[cl_name[d]])

====
